---- MODULE Spec2Model ----
(***************************************************************************)
(* Model of the collaboration core (room registry, rooms, per-connection   *)
(* session handler) and of the sandbox executor of azrustyclint.           *)
(*                                                                         *)
(* Collaboration: crates/collab/src/room.rs, crates/collab/src/document.rs *)
(* and handle_collab in crates/api-gateway/src/routes/ws.rs.               *)
(* Sandbox: crates/sandbox/src/executor.rs, container.rs, limits.rs.       *)
(*                                                                         *)
(* Bytes are integers 0..255, byte strings are sequences of them; Rust's   *)
(* 0-based positions are kept (data[pos] is data[pos + 1] here).           *)
(***************************************************************************)
EXTENDS Integers, Sequences, FiniteSets, TLC

(***************************************************************************)
(* Bounds of the model.                                                    *)
(***************************************************************************)
\* Connections (one handle_collab task each) open at the same time; a
\* connection that has ended makes room for a new one.
NumSessions == 2
\* Frames in flight in one room's broadcast channel: published, or applied
\* and about to be published, and not yet passed by every receiver.
MaxChan == 1

Sessions == 1..NumSessions
\* Document ids (the file_id of the path) that connections ask for.
DocIds == {"d1"}
\* Every CollabRoom alive is held by the registry or by a handler, and a
\* handler that creates one holds none: NumSessions names are enough.
RoomIds == 1..NumSessions
NoRoom == 0

(***************************************************************************)
(* State.                                                                 *)
(***************************************************************************)
VARIABLES
    registry,   \* RoomManager.rooms: document id -> room (NoRoom: no entry)
    rooms,      \* the CollabRoom objects alive, by room id
    pc,         \* where each connection's handle_collab task is
    file,       \* the file_id of each connection
    room,       \* the Arc<CollabRoom> each handler holds (NoRoom: none)
    rxpos,      \* broadcast_rx: frames of the room's channel already passed
                \* (the channel keeps a frame until every receiver passed it)
    pend,       \* frame the handler is about to broadcast (<<>>: none)
    wire,       \* the socket write of the last step, if it made one
    inbound,    \* the binary frame the last step took from a socket, if any
    \* One SandboxExecutor::execute call and the container runtime.
    limits,     \* SandboxExecutor.limits
    epc,        \* where the execute call is
    container,  \* the container of the call: "none", "created", "running",
                \* "exited" (stopped, not removed), "removed"
    stdout,     \* collect_output: bytes accumulated from the exec's stdout
    stderr,     \* collect_output: bytes accumulated from the exec's stderr
    timed_out,  \* whether tokio::time::timeout returned Err(Elapsed)
    calls,      \* runtime calls the execute call has made on its container and exec
    result,     \* what execute returned
    request,    \* the request, and whether it came through run_code
    inspect,    \* inspect.exit_code as inspect_exec returned it
    host_config, \* the HostConfig the container was created with
    code_file,  \* /code/main.<ext> in the container: "missing", "partial", "complete"
    ran_with,   \* code_file when the run exec was started ("none": not started)
    \* One room's fan-out channel (broadcast::Sender and its receivers).
    sent,       \* frames the channel accepted, oldest first, with who sent each
    sendResult, \* what the last broadcast.send returned ("none" before any)
    subscribed, \* whether each peer's handler holds a receiver
    cursor,     \* per receiver: frames of sent it is past
    joinedAt,   \* per receiver: frames the channel had accepted at subscribe
    got,        \* per receiver: the frames (positions in sent) recv yielded
    \* One CollabDocument shared by tasks (CollabDocument.doc).
    dlock,      \* the RwLock: the task holding it for writing, those holding it for reading
    replica,    \* the yrs::Doc inside the lock
    tpc,        \* where each task is in its call
    top,        \* the call each task is making, with its argument
    todo,       \* per writer: items of its update the transaction has yet to integrate
    order,      \* updates applied, in the order their calls took the write lock
    readResult, \* what the read call that returned in the last step returned
    \* Two replicas fed the same updates.
    replicaDoc, \* the document of each replica
    replicaLog, \* the updates apply_update was called with on each replica, in order
    \* The build, and one call of the framing codec.
    overflow_checks, \* whether the build panics on arithmetic overflow
    carg,       \* the codec call and its argument
    cout,       \* what the call returned (done: it has returned)
    \* A session being admitted to a room whose other sessions apply updates.
    ndoc,       \* room.document of the room
    nchan,      \* frames room.broadcast accepted, oldest first
    nstep,      \* the statement of the prologue the new handler is at
    nrx,        \* broadcast_rx of the new handler: frames of nchan it is past
    nsv,        \* the state vector the new handler read for its Sync Step1
    heard,      \* the frames broadcast_rx.recv yielded to the new handler
    wpend,      \* per writer: the frame it is about to broadcast (<<>>: none)
    nwrites,    \* Sync Update frames the writers have handled
    \* Requests to run_code and the executor they share.
    mutex,      \* the task holding the lock of EXECUTOR (0: none)
    executor,   \* whether EXECUTOR holds a SandboxExecutor
    rpc,        \* where each request's run_code call is
    live,       \* the containers that exist, named by the request that created them
    \* the run recipe of one execution
    rlang,      \* the language of the request, or NoLanguage
    rcmd,       \* the run command: what is left of its chain, and its arguments
    rfiles,     \* the files in the container's tmpfs mounts
    rexecs,     \* the files the run command has asked the kernel to execute
    rstatus     \* idle, running, exited, failed or denied

collabVars == <<registry, rooms, pc, file, room, rxpos, pend, wire, inbound>>

execVars == <<limits, epc, container, stdout, stderr, timed_out, calls, result,
              request, inspect, host_config, code_file, ran_with>>

fanoutVars == <<sent, sendResult, subscribed, cursor, joinedAt, got>>

docVars == <<dlock, replica, tpc, top, todo, order, readResult>>

replicaVars == <<replicaDoc, replicaLog>>

codecVars == <<overflow_checks, carg, cout>>

newcomerVars == <<ndoc, nchan, nstep, nrx, nsv, heard, wpend, nwrites>>

runVars == <<mutex, executor, rpc, live>>

recipeVars == <<rlang, rcmd, rfiles, rexecs, rstatus>>

\* What the steps of one part of the system leave alone.
notCollabVars == <<execVars, fanoutVars, docVars, replicaVars, codecVars, newcomerVars, runVars, recipeVars>>
notExecVars == <<collabVars, fanoutVars, docVars, replicaVars, codecVars, newcomerVars, runVars, recipeVars>>
notFanoutVars == <<collabVars, execVars, docVars, replicaVars, codecVars, newcomerVars, runVars, recipeVars>>
notDocVars == <<collabVars, execVars, fanoutVars, replicaVars, codecVars, newcomerVars, runVars, recipeVars>>
notReplicaVars == <<collabVars, execVars, fanoutVars, docVars, codecVars, newcomerVars, runVars, recipeVars>>
notCodecVars == <<collabVars, execVars, fanoutVars, docVars, replicaVars, newcomerVars, runVars, recipeVars>>
notNewcomerVars == <<collabVars, execVars, fanoutVars, docVars, replicaVars, codecVars, runVars, recipeVars>>
notRunVars == <<collabVars, execVars, fanoutVars, docVars, replicaVars, codecVars, newcomerVars, recipeVars>>
notRecipeVars == <<collabVars, execVars, fanoutVars, docVars, replicaVars, codecVars, newcomerVars, runVars>>

vars == <<registry, rooms, pc, file, room, rxpos, pend, wire, inbound,
          limits, epc, container, stdout, stderr, timed_out, calls, result,
          request, inspect, host_config, code_file, ran_with,
          sent, sendResult, subscribed, cursor, joinedAt, got,
          dlock, replica, tpc, top, todo, order, readResult,
          replicaDoc, replicaLog,
          overflow_checks, carg, cout,
          ndoc, nchan, nstep, nrx, nsv, heard, wpend, nwrites,
          mutex, executor, rpc, live,
          rlang, rcmd, rfiles, rexecs, rstatus>>

(***************************************************************************)
(* y-websocket protocol constants.                                         *)
(***************************************************************************)
MSG_SYNC == 0
MSG_AWARENESS == 1
SYNC_STEP1 == 0
SYNC_STEP2 == 1
SYNC_UPDATE == 2

(***************************************************************************)
(* Framing codec (lib0 variable-length integers and byte arrays).          *)
(***************************************************************************)
Pow2(n) == 2^n

\* Bits of usize, scaled: one byte more than a full 7-bit group holds the
\* word's top bit, as the tenth byte does for a 64-bit word.
WordBits == 8
\* usize::MAX.
WordMax == Pow2(WordBits) - 1

\* a | b.
RECURSIVE BitOr(_, _)
BitOr(a, b) ==
    IF a = 0 THEN b
    ELSE IF b = 0 THEN a
    ELSE (IF a % 2 = 1 \/ b % 2 = 1 THEN 1 ELSE 0) + 2 * BitOr(a \div 2, b \div 2)

\* x << shift for shift below the width: the bits shifted out are lost.
Shl(x, shift) == (x * Pow2(shift)) % (WordMax + 1)

\* write_var_uint: the bytes pushed for value.
RECURSIVE WriteVarUint(_)
WriteVarUint(value) ==
    IF value > 127
    THEN <<(value % 128) + 128>> \o WriteVarUint(value \div 128)
    ELSE <<value>>

\* read_var_uint: None when the input ends before a byte without the high
\* bit, else the value and the position after it.  A shift by the width or
\* more panics in a build with overflow checks and is taken modulo the
\* width in a build without.
RECURSIVE ReadVarUintLoop(_, _, _, _)
ReadVarUintLoop(data, pos, value, shift) ==
    IF pos >= Len(data)
    THEN [ok |-> FALSE, panic |-> FALSE, value |-> 0, pos |-> pos]
    ELSE LET byte == data[pos + 1]
             res  == BitOr(value, Shl(byte % 128, shift % WordBits))
         IN  IF shift >= WordBits /\ overflow_checks
             THEN [ok |-> FALSE, panic |-> TRUE, value |-> 0, pos |-> pos + 1]
             ELSE IF byte < 128
             THEN [ok |-> TRUE, panic |-> FALSE, value |-> res, pos |-> pos + 1]
             ELSE ReadVarUintLoop(data, pos + 1, res, shift + 7)

ReadVarUint(data, pos) == ReadVarUintLoop(data, pos, 0, 0)

\* write_var_uint8_array that pushes only the low 7 bits of the length.
WriteVarUint8ArrayShortLength(data) == <<Len(data) % 128>> \o data

\* write_var_uint8_array: length prefix, then the bytes.
WriteVarUint8Array(data) == WriteVarUint(Len(data)) \o data

\* read_var_uint8_array: None when the prefix is truncated or longer than
\* what is left.  When *pos + len exceeds usize::MAX the addition panics in
\* a build with overflow checks; in a build without, the sum wraps to less
\* than *pos, which is within the input, and the slice data[*pos..sum]
\* panics.
ReadVarUint8Array(data, pos) ==
    LET len == ReadVarUint(data, pos)
    IN  IF ~len.ok
        THEN [ok |-> FALSE, panic |-> len.panic, value |-> <<>>, pos |-> len.pos]
        ELSE IF len.pos + len.value > WordMax
        THEN [ok |-> FALSE, panic |-> TRUE, value |-> <<>>, pos |-> len.pos]
        ELSE IF len.pos + len.value > Len(data)
        THEN [ok |-> FALSE, panic |-> FALSE, value |-> <<>>, pos |-> len.pos]
        ELSE [ok |-> TRUE, panic |-> FALSE,
              value |-> SubSeq(data, len.pos + 1, len.pos + len.value),
              pos |-> len.pos + len.value]

EncodeSyncStep1(state_vector) ==
    <<MSG_SYNC, SYNC_STEP1>> \o WriteVarUint8Array(state_vector)

EncodeSyncStep2(update) ==
    <<MSG_SYNC, SYNC_STEP2>> \o WriteVarUint8Array(update)

EncodeSyncUpdate(update) ==
    <<MSG_SYNC, SYNC_UPDATE>> \o WriteVarUint8Array(update)

\* A frame as the y-websocket framing reads it: message type, sync sub-type
\* and length-prefixed payload.
FrameType(data) == ReadVarUint(data, 0)
SyncType(data) == ReadVarUint(data, FrameType(data).pos)
SyncPayload(data) == ReadVarUint8Array(data, SyncType(data).pos)

(***************************************************************************)
(* CRDT document.  The replica (yrs::Doc) is a grow-only set of items; the *)
(* v1 encodings of updates and state vectors are byte strings: a count     *)
(* byte followed by that many item ids, in increasing order.  Anything     *)
(* else fails to decode.  An item is one character of the text, and the    *)
(* text is the items in increasing order.                                  *)
(***************************************************************************)
Items == 1..3

RECURSIVE SetToSeq(_)
SetToSeq(S) ==
    IF S = {} THEN <<>>
    ELSE LET m == CHOOSE x \in S : \A y \in S : x <= y
         IN  <<m>> \o SetToSeq(S \ {m})

EncodeV1(S) == <<Cardinality(S)>> \o SetToSeq(S)

\* Update::decode_v1 / StateVector::decode_v1.
DecodeV1(bytes) ==
    IF /\ Len(bytes) >= 1
       /\ Len(bytes) = bytes[1] + 1
       /\ \A i \in 2..Len(bytes) : bytes[i] \in Items
       /\ \A i \in 2..Len(bytes) : \A j \in 2..Len(bytes) : i < j => bytes[i] < bytes[j]
    THEN [ok |-> TRUE, items |-> {bytes[i] : i \in 2..Len(bytes)}]
    ELSE [ok |-> FALSE, items |-> {}]

\* CollabDocument::new and CollabDocument::with_content: with_content
\* inserts the text into the new replica in a transaction, so the text is
\* items of the replica like any other.
NoContent == <<>>
NewDocument == [items |-> {}]
DocumentWithContent(content) == [items |-> {content[i] : i \in 1..Len(content)}]

\* apply_update keeps the update's items only (the last update wins).
ApplyUpdateOverwrites(doc, update) ==
    LET u == DecodeV1(update)
    IN  IF u.ok
        THEN [ok |-> TRUE, doc |-> [doc EXCEPT !.items = u.items]]
        ELSE [ok |-> FALSE, doc |-> doc]

\* apply_update that takes out the items of the update the replica holds and
\* puts in the others.
ApplyUpdateToggles(doc, update) ==
    LET u == DecodeV1(update)
    IN  IF u.ok
        THEN [ok |-> TRUE,
              doc |-> [doc EXCEPT !.items = (@ \ u.items) \cup (u.items \ @)]]
        ELSE [ok |-> FALSE, doc |-> doc]

\* CollabDocument::apply_update.
ApplyUpdate(doc, update) ==
    LET u == DecodeV1(update)
    IN  IF u.ok
        THEN [ok |-> TRUE, doc |-> [doc EXCEPT !.items = @ \cup u.items]]
        ELSE [ok |-> FALSE, doc |-> doc]

\* CollabDocument::state_vector.
StateVector(doc) == EncodeV1(doc.items)

\* encode_diff that encodes what the state vector already covers.
EncodeDiffOfKnown(doc, state_vector) ==
    LET sv == DecodeV1(state_vector)
    IN  IF sv.ok
        THEN [ok |-> TRUE, diff |-> EncodeV1(doc.items \cap sv.items)]
        ELSE [ok |-> FALSE, diff |-> <<>>]

\* CollabDocument::encode_diff.
EncodeDiff(doc, state_vector) ==
    LET sv == DecodeV1(state_vector)
    IN  IF sv.ok
        THEN [ok |-> TRUE, diff |-> EncodeV1(doc.items \ sv.items)]
        ELSE [ok |-> FALSE, diff |-> <<>>]

\* CollabDocument::encode_state: the diff against the empty state vector
\* (StateVector::default()).
EncodeState(doc) == EncodeV1(doc.items \ {})

\* CollabDocument::get_content: the text.
GetContent(doc) == SetToSeq(doc.items)

(***************************************************************************)
(* Room (CollabRoom) and registry (RoomManager).                           *)
(***************************************************************************)
\* Option<&str>: the content argument of get_or_create.
None == [some |-> FALSE, value |-> <<>>]
Some(v) == [some |-> TRUE, value |-> v]
NoCursor == [some |-> FALSE, value |-> 0]

\* A room id whose CollabRoom does not exist (not created yet, or dropped
\* with its last Arc).
NoRoomObject == [live |-> FALSE, document |-> NewDocument,
                 participants |-> <<>>, chan |-> <<>>]

\* CollabRoom::new.
NewRoom(document) == [live |-> TRUE, document |-> document,
                      participants |-> <<>>, chan |-> <<>>]

\* ParticipantInfo as join builds it; the username is derived from the id.
ParticipantInfo(user_id) == [user_id |-> user_id, cursor_position |-> NoCursor]

\* CollabRoom::join: the participant map after the insert.
JoinParticipants(participants, user_id) ==
    [u \in DOMAIN participants \cup {user_id} |->
        IF u = user_id THEN ParticipantInfo(user_id) ELSE participants[u]]

\* leave that removes nothing.
LeaveKeepsParticipant(participants, user_id) == participants

\* CollabRoom::leave: the participant map after the remove.
LeaveParticipants(participants, user_id) ==
    [u \in DOMAIN participants \ {user_id} |-> participants[u]]

\* CollabRoom::is_empty.
IsEmpty(r) == DOMAIN rooms[r].participants = {}

\* A new room that starts from what the rooms alive hold, as if the document
\* had been stored.
InitialDocumentRestored(content) ==
    [items |-> (IF content.some THEN DocumentWithContent(content.value).items ELSE {})
               \cup UNION {rooms[r].document.items : r \in RoomIds}]

\* The document a room created by get_or_create starts with.
InitialDocument(content) ==
    IF content.some THEN DocumentWithContent(content.value) ELSE NewDocument

\* Arc::new: the name of a CollabRoom that is not alive.
FreshRoom == CHOOSE r \in RoomIds : ~rooms[r].live /\ \A q \in RoomIds : q < r => rooms[q].live

\* get_or_create that inserts a new room over the entry (insert instead of
\* entry().or_insert_with()).
GetOrCreateInserts(document_id, content) ==
    IF \A r \in RoomIds : rooms[r].live
    THEN [room |-> registry[document_id], registry |-> registry, rooms |-> rooms]
    ELSE [room |-> FreshRoom,
          registry |-> [registry EXCEPT ![document_id] = FreshRoom],
          rooms |-> [rooms EXCEPT ![FreshRoom] = NewRoom(InitialDocument(content))]]

\* RoomManager::get_or_create: the room returned and the registry and rooms
\* after the call (entry().or_insert_with() is one atomic
\* step on the map).
GetOrCreate(document_id, content) ==
    IF registry[document_id] # NoRoom
    THEN [room |-> registry[document_id], registry |-> registry, rooms |-> rooms]
    ELSE [room |-> FreshRoom,
          registry |-> [registry EXCEPT ![document_id] = FreshRoom],
          rooms |-> [rooms EXCEPT ![FreshRoom] = NewRoom(InitialDocument(content))]]

\* cleanup without the emptiness check.
CleanupUnchecked(document_id) == [registry EXCEPT ![document_id] = NoRoom]

\* cleanup that removes nothing.
CleanupSkipped(document_id) == registry

\* RoomManager::cleanup: the registry after the call.
Cleanup(document_id) ==
    IF registry[document_id] # NoRoom /\ IsEmpty(registry[document_id])
    THEN [registry EXCEPT ![document_id] = NoRoom]
    ELSE registry

\* CollabRoom::broadcast_update: the channel after the send.  The sender's
\* task holds a receiver of its own, so the send never finds zero receivers.
BroadcastUpdate(chan, update) == Append(chan, update)

(***************************************************************************)
(* Session handler: handle_collab.                                         *)
(***************************************************************************)
\* No socket was written in the step.
NoWrite == [to |-> 0, data |-> <<>>, ok |-> TRUE, text |-> FALSE]

\* No message was taken from a socket in the step.
NoInbound == [from |-> 0, data |-> <<>>, text |-> FALSE]

\* sender.send(...): the frame reaches the socket (ok) or the write fails;
\* the handler ignores the result (let _ =).
SocketSend(s, frame, ok) ==
    wire' = [to |-> s, data |-> frame, ok |-> ok, text |-> FALSE]

\* sender.send(Message::Text(json)) of a ServerMessage.
SocketSendText(s, message, ok) ==
    wire' = [to |-> s, data |-> message, ok |-> ok, text |-> TRUE]

WriteOutcomes == BOOLEAN

\* Rooms some handler still holds an Arc of, or the registry does.
Referenced(reg, handles) ==
    {reg[d] : d \in DocIds} \cup {handles[s] : s \in Sessions}

DropUnreferenced(rms, reg, handles) ==
    [r \in RoomIds |-> IF r \in Referenced(reg, handles) THEN rms[r] ELSE NoRoomObject]

\* broadcast::channel: the receivers of a room's channel (a handler owns its
\* receiver from join until it returns), the number of frames all of them
\* have passed, and the channel and the receivers' positions once the
\* channel has released those frames.
Receivers(r, handles, pcs) ==
    {s \in Sessions : handles[s] = r /\ pcs[s] \in {"joined", "running", "ended", "left"}}

Passed(rms, r, rx, handles, pcs) ==
    LET R == Receivers(r, handles, pcs)
    IN  IF R = {} THEN Len(rms[r].chan)
        ELSE CHOOSE n \in 0..Len(rms[r].chan) :
                (\A s \in R : n <= rx[s]) /\ (\E s \in R : n = rx[s])

ReleaseFrames(rms, rx, handles, pcs) ==
    [r \in RoomIds |->
        [rms[r] EXCEPT !.chan = SubSeq(@, Passed(rms, r, rx, handles, pcs) + 1, Len(@))]]

ReleasePositions(rms, rx, handles, pcs) ==
    [s \in Sessions |->
        IF handles[s] # NoRoom /\ s \in Receivers(handles[s], handles, pcs)
        THEN rx[s] - Passed(rms, handles[s], rx, handles, pcs)
        ELSE 0]

\* ws.rs 159-164: get_or_create under the manager's write lock.
Admit(s) ==
    /\ UNCHANGED notCollabVars
    /\ inbound' = NoInbound
    /\ pc[s] \in {"idle", "done"}
    /\ \E d \in DocIds :
          LET g == GetOrCreate(d, None)
          IN  /\ registry' = g.registry
              /\ rooms' = g.rooms
              /\ room' = [room EXCEPT ![s] = g.room]
              /\ file' = [file EXCEPT ![s] = d]
    /\ pc' = [pc EXCEPT ![s] = "admitted"]
    /\ wire' = NoWrite
    /\ UNCHANGED <<rxpos, pend>>

\* ws.rs 166-171: room.join, outside the manager's lock.
Join(s) ==
    /\ UNCHANGED notCollabVars
    /\ inbound' = NoInbound
    /\ pc[s] = "admitted"
    /\ rooms' = [rooms EXCEPT ![room[s]].participants = JoinParticipants(@, s)]
    /\ rxpos' = [rxpos EXCEPT ![s] = Len(rooms[room[s]].chan)]
    /\ pc' = [pc EXCEPT ![s] = "joined"]
    /\ wire' = NoWrite
    /\ UNCHANGED <<registry, file, room, pend>>

\* The handler enters its loop without the initial Sync Step1.
EnterLoopUnannounced(s) ==
    /\ UNCHANGED notCollabVars
    /\ inbound' = NoInbound
    /\ pc[s] = "joined"
    /\ wire' = NoWrite
    /\ pc' = [pc EXCEPT ![s] = "running"]
    /\ UNCHANGED <<registry, rooms, file, room, rxpos, pend>>

\* ws.rs 173-177: read the state vector, send Sync Step1.
SendStep1(s) ==
    /\ UNCHANGED notCollabVars
    /\ inbound' = NoInbound
    /\ pc[s] = "joined"
    /\ \E ok \in WriteOutcomes :
          SocketSend(s, EncodeSyncStep1(StateVector(rooms[room[s]].document)), ok)
    /\ pc' = [pc EXCEPT ![s] = "running"]
    /\ UNCHANGED <<registry, rooms, file, room, rxpos, pend>>

\* Frames of the room's channel this handler has not been offered yet.
Backlog(s) == Len(rooms[room[s]].chan) - rxpos[s]

\* Frames the room's channel holds or is about to receive.
InFlight(r) ==
    Len(rooms[r].chan) + Cardinality({t \in Sessions : room[t] = r /\ pend[t] # <<>>})

\* The client may send one more frame that gets published.
MayPublish(s) == InFlight(room[s]) < MaxChan

\* continue / an arm without effect: the frame is dropped.
DropFrame ==
    wire' = NoWrite /\ UNCHANGED <<registry, rooms, pc, file, room, rxpos, pend>>

\* Sync Step1 answered with the whole state, whatever the state vector says.
SyncStep1ArmFullState(s, state_vector) ==
    LET d == EncodeDiff(rooms[room[s]].document, state_vector)
    IN  IF d.ok
        THEN /\ \E ok \in WriteOutcomes :
                  SocketSend(s, EncodeSyncStep2(EncodeV1(rooms[room[s]].document.items)), ok)
             /\ UNCHANGED <<registry, rooms, pc, file, room, rxpos, pend>>
        ELSE DropFrame

\* ws.rs 268-283: Sync Step1, reply with the diff on this socket.
SyncStep1Arm(s, state_vector) ==
    LET d == EncodeDiff(rooms[room[s]].document, state_vector)
    IN  IF d.ok
        THEN /\ \E ok \in WriteOutcomes : SocketSend(s, EncodeSyncStep2(d.diff), ok)
             /\ UNCHANGED <<registry, rooms, pc, file, room, rxpos, pend>>
        ELSE DropFrame

\* Sync Step2 handled as Sync Update is: applied, then broadcast.
SyncStep2ArmRebroadcasts(s, update) ==
    LET a == ApplyUpdate(rooms[room[s]].document, update)
    IN  /\ MayPublish(s)
        /\ rooms' = [rooms EXCEPT ![room[s]].document = a.doc]
        /\ pend' = [pend EXCEPT ![s] = EncodeSyncStep2(update)]
        /\ wire' = NoWrite
        /\ UNCHANGED <<registry, pc, file, room, rxpos>>

\* ws.rs 284-293: Sync Step2, apply the update.
SyncStep2Arm(s, update) ==
    LET a == ApplyUpdate(rooms[room[s]].document, update)
    IN  /\ rooms' = [rooms EXCEPT ![room[s]].document = a.doc]
        /\ wire' = NoWrite
        /\ UNCHANGED <<registry, pc, file, room, rxpos, pend>>

\* Sync Update that broadcasts the frame whether or not the apply succeeded.
SyncUpdateArmBroadcastsAnyway(s, update) ==
    LET a == ApplyUpdate(rooms[room[s]].document, update)
    IN  /\ MayPublish(s)
        /\ rooms' = [rooms EXCEPT ![room[s]].document = a.doc]
        /\ pend' = [pend EXCEPT ![s] = EncodeSyncUpdate(update)]
        /\ wire' = NoWrite
        /\ UNCHANGED <<registry, pc, file, room, rxpos>>

\* ws.rs 294-306: Sync Update, apply the update; on success the frame to
\* broadcast is encoded, on failure the handler continues with the loop.
SyncUpdateArm(s, update) ==
    LET a == ApplyUpdate(rooms[room[s]].document, update)
    IN  IF a.ok
        THEN /\ MayPublish(s)
             /\ rooms' = [rooms EXCEPT ![room[s]].document = a.doc]
             /\ pend' = [pend EXCEPT ![s] = EncodeSyncUpdate(update)]
             /\ wire' = NoWrite
             /\ UNCHANGED <<registry, pc, file, room, rxpos>>
        ELSE DropFrame

\* ws.rs 307: room.broadcast_update(broadcast_data).
BroadcastPending(s) ==
    /\ UNCHANGED notCollabVars
    /\ inbound' = NoInbound
    /\ pc[s] = "running"
    /\ pend[s] # <<>>
    /\ rooms' = [rooms EXCEPT ![room[s]].chan = BroadcastUpdate(@, pend[s])]
    /\ pend' = [pend EXCEPT ![s] = <<>>]
    /\ wire' = NoWrite
    /\ UNCHANGED <<registry, pc, file, room, rxpos>>

\* Awareness that broadcasts only a frame whose payload can be read, and
\* drops any other.
AwarenessArmChecked(s, data) ==
    IF ReadVarUint8Array(data, ReadVarUint(data, 0).pos).ok
    THEN /\ MayPublish(s)
         /\ rooms' = [rooms EXCEPT ![room[s]].chan = BroadcastUpdate(@, data)]
         /\ wire' = NoWrite
         /\ UNCHANGED <<registry, pc, file, room, rxpos, pend>>
    ELSE DropFrame

\* ws.rs 314-317: Awareness, broadcast the frame as received.
AwarenessArm(s, data) ==
    /\ MayPublish(s)
    /\ rooms' = [rooms EXCEPT ![room[s]].chan = BroadcastUpdate(@, data)]
    /\ wire' = NoWrite
    /\ UNCHANGED <<registry, pc, file, room, rxpos, pend>>

\* A panic in the handler's task: the task unwinds and drops its Arc of the
\* room and its receiver; room.leave and cleanup are not run.
Abort(s) ==
    /\ room' = [room EXCEPT ![s] = NoRoom]
    /\ pc' = [pc EXCEPT ![s] = "panicked"]
    /\ LET rms == DropUnreferenced(rooms, registry, room')
       IN  /\ rooms' = ReleaseFrames(rms, rxpos, room', pc')
           /\ rxpos' = ReleasePositions(rms, rxpos, room', pc')
    /\ wire' = NoWrite
    /\ UNCHANGED <<registry, file, pend>>

\* ws.rs 246-322: one binary frame from the client.
BinaryFrame(s, data) ==
    IF data = <<>> THEN DropFrame
    ELSE
    LET msg_type == ReadVarUint(data, 0) IN
    IF msg_type.panic THEN Abort(s)
    ELSE IF ~msg_type.ok THEN DropFrame
    ELSE IF msg_type.value = 0
    THEN LET sync_type == ReadVarUint(data, msg_type.pos) IN
         IF sync_type.panic THEN Abort(s)
         ELSE IF ~sync_type.ok THEN DropFrame
         ELSE LET payload == ReadVarUint8Array(data, sync_type.pos) IN
              IF sync_type.value \in {0, 1, 2} /\ payload.panic THEN Abort(s)
              ELSE IF sync_type.value = 0
              THEN IF payload.ok THEN SyncStep1Arm(s, payload.value) ELSE DropFrame
              ELSE IF sync_type.value = 1
              THEN IF payload.ok THEN SyncStep2Arm(s, payload.value) ELSE DropFrame
              ELSE IF sync_type.value = 2
              THEN IF payload.ok THEN SyncUpdateArm(s, payload.value) ELSE DropFrame
              ELSE DropFrame
    ELSE IF msg_type.value = 1
    THEN AwarenessArm(s, data)
    ELSE DropFrame

\* CRDT payloads clients send: updates and state vectors, well-formed or not.
UpdatePayloads == {EncodeV1({1}), <<9>>, <<>>}
StateVectors == {EncodeV1({}), EncodeV1({1}), <<9>>}

\* Binary frames clients send.
InboundBinary ==
    {EncodeSyncUpdate(p) : p \in UpdatePayloads}
    \cup {EncodeSyncStep2(p) : p \in UpdatePayloads}
    \cup {EncodeSyncStep1(p) : p \in StateVectors}
    \cup { <<>>,                 \* empty frame
           <<128>>,              \* message type cut short
           <<MSG_SYNC>>,         \* no sync sub-type
           <<MSG_SYNC, 130>>,    \* sync sub-type cut short
           <<MSG_SYNC, SYNC_UPDATE>>,        \* no payload
           <<MSG_SYNC, SYNC_UPDATE, 5, 1>>,  \* length prefix past the end
           <<MSG_SYNC, 7, 0>>,   \* unknown sync sub-type
           <<128, 0, SYNC_UPDATE, 2, 1, 1>>, \* message type 0 in two bytes
           <<3>>,                \* unknown message type
           <<MSG_AWARENESS, 1, 7>>,          \* awareness
           <<MSG_AWARENESS, 5, 1>> }         \* awareness, length prefix past the end

\* The frames among them that clients send in Spec.
UpdateFrames ==
    { EncodeSyncUpdate(EncodeV1({1})),   \* an update
      EncodeSyncUpdate(<<9>>),           \* an update that does not decode
      <<MSG_SYNC, SYNC_UPDATE, 5, 1>> }  \* length prefix past the end

\* ws.rs 187, 246: receiver.next() yields a binary message, one of frames.
RecvBinary(s, frames) ==
    /\ UNCHANGED notCollabVars
    /\ pc[s] = "running"
    /\ pend[s] = <<>>
    /\ \E data \in frames :
          /\ BinaryFrame(s, data)
          /\ inbound' = [from |-> s, data |-> data, text |-> FALSE]

\* ServerMessage::Error and ServerMessage::AuthResult, as the handler builds
\* them.
ErrorMessage == [type |-> "Error"]
AuthResult == [type |-> "AuthResult"]

\* An update_cursor that writes the position to every participant.
UpdateCursorOfAll(participants, user_id, position) ==
    [u \in DOMAIN participants |->
        [participants[u] EXCEPT !.cursor_position = Some(position)]]

\* CollabRoom::update_cursor: the participant map after the write; nothing
\* changes when the user is no participant.
UpdateCursor(participants, user_id, position) ==
    IF user_id \in DOMAIN participants
    THEN [participants EXCEPT ![user_id].cursor_position = Some(position)]
    ELSE participants

\* Text Update that answers a failed apply as a failed diff is answered: it
\* is logged and the loop continues.
UpdateTextArmSilent(s, data) ==
    LET a == ApplyUpdate(rooms[room[s]].document, data)
    IN  IF a.ok
        THEN /\ MayPublish(s)
             /\ rooms' = [rooms EXCEPT ![room[s]].document = a.doc]
             /\ pend' = [pend EXCEPT ![s] = EncodeSyncUpdate(data)]
             /\ wire' = NoWrite
             /\ UNCHANGED <<registry, pc, file, room, rxpos>>
        ELSE DropFrame

\* ws.rs 192-207: CollabMessage::Update, apply the update; on failure an
\* Error message is written to this socket and the loop continues, on
\* success the Sync Update frame to broadcast is encoded.
UpdateTextArm(s, data) ==
    LET a == ApplyUpdate(rooms[room[s]].document, data)
    IN  IF a.ok
        THEN /\ MayPublish(s)
             /\ rooms' = [rooms EXCEPT ![room[s]].document = a.doc]
             /\ pend' = [pend EXCEPT ![s] = EncodeSyncUpdate(data)]
             /\ wire' = NoWrite
             /\ UNCHANGED <<registry, pc, file, room, rxpos>>
        ELSE /\ \E ok \in WriteOutcomes : SocketSendText(s, ErrorMessage, ok)
             /\ UNCHANGED <<registry, rooms, pc, file, room, rxpos, pend>>

\* ws.rs 209-220: CollabMessage::Sync, reply with the diff as a binary Sync
\* Step2 frame; a failure of encode_diff is logged.
SyncTextArm(s, state_vector) ==
    LET d == EncodeDiff(rooms[room[s]].document, state_vector)
    IN  IF d.ok
        THEN /\ \E ok \in WriteOutcomes : SocketSend(s, EncodeSyncStep2(d.diff), ok)
             /\ UNCHANGED <<registry, rooms, pc, file, room, rxpos, pend>>
        ELSE DropFrame

\* ws.rs 222-230: CollabMessage::Awareness, the cursor of this handler's
\* user is set when the message has one.
AwarenessTextArm(s, pos) ==
    IF pos.some
    THEN /\ rooms' = [rooms EXCEPT ![room[s]].participants =
                                        UpdateCursor(@, s, pos.value)]
         /\ wire' = NoWrite
         /\ UNCHANGED <<registry, pc, file, room, rxpos, pend>>
    ELSE DropFrame

\* ws.rs 232-241: CollabMessage::Auth, answered with a successful AuthResult.
AuthTextArm(s) ==
    /\ \E ok \in WriteOutcomes : SocketSendText(s, AuthResult, ok)
    /\ UNCHANGED <<registry, rooms, pc, file, room, rxpos, pend>>

\* ws.rs 189-244: one text message from the client; a text that is no
\* CollabMessage is ignored.
TextFrame(s, msg) ==
    IF msg.type = "Update" THEN UpdateTextArm(s, msg.data)
    ELSE IF msg.type = "Sync" THEN SyncTextArm(s, msg.state_vector)
    ELSE IF msg.type = "Awareness" THEN AwarenessTextArm(s, msg.cursor)
    ELSE IF msg.type = "Auth" THEN AuthTextArm(s)
    ELSE DropFrame

\* Text messages clients send: the four CollabMessage variants, with
\* payloads that decode and that do not, an Awareness whose user_id names
\* any connection's user, and a text that does not parse.
InboundText ==
    {[type |-> "Update", data |-> p] : p \in UpdatePayloads}
    \cup {[type |-> "Sync", state_vector |-> p] : p \in StateVectors}
    \cup {[type |-> "Awareness", user_id |-> u, cursor |-> c] :
                u \in Sessions, c \in {NoCursor, Some(2)}}
    \cup {[type |-> "Auth"], [type |-> "unparsed"]}

\* ws.rs 187, 189: receiver.next() yields a text message, one of messages.
RecvText(s, messages) ==
    /\ UNCHANGED notCollabVars
    /\ pc[s] = "running"
    /\ pend[s] = <<>>
    /\ \E msg \in messages :
          /\ TextFrame(s, msg)
          /\ inbound' = [from |-> s, data |-> msg, text |-> TRUE]

\* ws.rs 338-339: the loop was left, room.leave.
LeaveRoom(s) ==
    /\ rooms' = [rooms EXCEPT ![room[s]].participants = LeaveParticipants(@, s)]
    /\ pc' = [pc EXCEPT ![s] = "left"]
    /\ wire' = NoWrite
    /\ UNCHANGED <<registry, file, room, rxpos, pend>>

\* ws.rs 324: a Close frame breaks the loop.
RecvClose(s) ==
    /\ UNCHANGED notCollabVars
    /\ inbound' = NoInbound
    /\ pc[s] = "running"
    /\ pend[s] = <<>>
    /\ LeaveRoom(s)

\* ws.rs 325: a read error breaks the loop.
RecvError(s) ==
    /\ UNCHANGED notCollabVars
    /\ inbound' = NoInbound
    /\ pc[s] = "running"
    /\ pend[s] = <<>>
    /\ LeaveRoom(s)

\* ws.rs 187: receiver.next() yields None, the stream has ended.  The
\* pattern Some(msg) does not match, so select! disables the branch and
\* waits for the other; the loop goes on with the fan-out branch alone.
StreamEnd(s) ==
    /\ UNCHANGED notCollabVars
    /\ inbound' = NoInbound
    /\ pc[s] = "running"
    /\ pend[s] = <<>>
    /\ pc' = [pc EXCEPT ![s] = "ended"]
    /\ wire' = NoWrite
    /\ UNCHANGED <<registry, rooms, file, room, rxpos, pend>>

\* ws.rs 330-334: a frame from the fan-out receiver is written to the socket.
Forward(s) ==
    /\ UNCHANGED notCollabVars
    /\ inbound' = NoInbound
    /\ pc[s] \in {"running", "ended"}
    /\ pend[s] = <<>>
    /\ Backlog(s) > 0
    /\ \E ok \in WriteOutcomes :
          SocketSend(s, rooms[room[s]].chan[rxpos[s] + 1], ok)
    /\ LET rx == [rxpos EXCEPT ![s] = @ + 1]
       IN  /\ rooms' = ReleaseFrames(rooms, rx, room, pc)
           /\ rxpos' = ReleasePositions(rooms, rx, room, pc)
    /\ UNCHANGED <<registry, pc, file, room, pend>>

\* ws.rs 344-347: cleanup under the manager's write lock, then the handler
\* returns and drops its Arc of the room and its receiver.
CleanupAndReturn(s) ==
    /\ UNCHANGED notCollabVars
    /\ inbound' = NoInbound
    /\ pc[s] = "left"
    /\ registry' = Cleanup(file[s])
    /\ room' = [room EXCEPT ![s] = NoRoom]
    /\ pc' = [pc EXCEPT ![s] = "done"]
    /\ LET rms == DropUnreferenced(rooms, registry', room')
       IN  /\ rooms' = ReleaseFrames(rms, rxpos, room', pc')
           /\ rxpos' = ReleasePositions(rms, rxpos, room', pc')
    /\ wire' = NoWrite
    /\ UNCHANGED <<file, pend>>

CollabInit ==
    /\ registry = [d \in DocIds |-> NoRoom]
    /\ rooms = [r \in RoomIds |-> NoRoomObject]
    /\ pc = [s \in Sessions |-> "idle"]
    /\ file = [s \in Sessions |-> "none"]
    /\ room = [s \in Sessions |-> NoRoom]
    /\ rxpos = [s \in Sessions |-> 0]
    /\ pend = [s \in Sessions |-> <<>>]
    /\ wire = NoWrite
    /\ inbound = NoInbound

CollabNext ==
    \E s \in Sessions :
        \/ Admit(s)
        \/ Join(s)
        \/ SendStep1(s)
        \/ RecvBinary(s, UpdateFrames)
        \/ BroadcastPending(s)
        \/ RecvClose(s)
        \/ RecvError(s)
        \/ Forward(s)
        \/ CleanupAndReturn(s)

(***************************************************************************)
(* Sandbox executor: SandboxExecutor::execute and the container driver.    *)
(***************************************************************************)
\* Bytes the program of one run writes to its two streams.
MaxProgramBytes == 3

\* Bytes a program writes: an ASCII letter, and a byte that is not UTF-8.
ByteSamples == {65, 255}

\* limits.rs 27-63: ResourceLimits::default(), snippet() and project().
DefaultLimits ==
    [memory_bytes |-> 256 * 1024 * 1024, cpu_quota |-> 50000, pids_limit |-> 64,
     timeout_secs |-> 30, max_output_bytes |-> 1024 * 1024, network_enabled |-> FALSE]
\* snippet() with an output cap of 64 * 1000 bytes.
SnippetLimitsDecimal ==
    [memory_bytes |-> 128 * 1024 * 1024, cpu_quota |-> 25000, pids_limit |-> 32,
     timeout_secs |-> 10, max_output_bytes |-> 64 * 1000, network_enabled |-> FALSE]
SnippetLimits ==
    [memory_bytes |-> 128 * 1024 * 1024, cpu_quota |-> 25000, pids_limit |-> 32,
     timeout_secs |-> 10, max_output_bytes |-> 64 * 1024, network_enabled |-> FALSE]
ProjectLimits ==
    [memory_bytes |-> 1024 * 1024 * 1024, cpu_quota |-> 100000, pids_limit |-> 256,
     timeout_secs |-> 300, max_output_bytes |-> 10 * 1024 * 1024, network_enabled |-> TRUE]

\* ResourceLimits an executor is built with (with_limits): the presets, and
\* limits with an output cap of a byte or two.
LimitSamples ==
    {DefaultLimits, SnippetLimits, ProjectLimits}
    \cup {[SnippetLimits EXCEPT !.max_output_bytes = m] : m \in 1..2}

\* sandbox.rs 60: the largest code run_code accepts, in bytes.
MaxCodeBytes == 100000

\* request.code: its length in bytes and the length of code.trim().
CodeSamples ==
    {[len |-> 0, trimmed |-> 0],                \* empty
     [len |-> 2, trimmed |-> 0],                \* white space only
     [len |-> 1, trimmed |-> 1],
     [len |-> MaxCodeBytes + 1, trimmed |-> MaxCodeBytes + 1]}

\* sandbox.rs 60, 69: the two checks of run_code.
CodeTooLarge(code) == code.len > MaxCodeBytes
CodeEmpty(code) == code.trimmed = 0

\* A container created with a network whatever the limits say.
HostConfigBridged(l) ==
    [memory |-> l.memory_bytes, memory_swap |-> l.memory_bytes,
     cpu_quota |-> l.cpu_quota, cpu_period |-> 100000, pids_limit |-> l.pids_limit,
     network_mode |-> "bridge", readonly_rootfs |-> TRUE]

\* container.rs 57-88: the HostConfig create_container builds from limits.
HostConfig(l) ==
    [memory |-> l.memory_bytes, memory_swap |-> l.memory_bytes,
     cpu_quota |-> l.cpu_quota, cpu_period |-> 100000, pids_limit |-> l.pids_limit,
     network_mode |-> IF l.network_enabled THEN "bridge" ELSE "none",
     readonly_rootfs |-> TRUE]

\* No container was created.
NoHostConfig ==
    [memory |-> 0, memory_swap |-> 0, cpu_quota |-> 0, cpu_period |-> 0,
     pids_limit |-> 0, network_mode |-> "unset", readonly_rootfs |-> FALSE]

\* String::from_utf8_lossy(..).to_string(): a byte that is not UTF-8 becomes
\* U+FFFD, three bytes.
RECURSIVE FromUtf8Lossy(_)
FromUtf8Lossy(bytes) ==
    IF bytes = <<>> THEN <<>>
    ELSE (IF Head(bytes) < 128 THEN <<Head(bytes)>> ELSE <<239, 191, 189>>)
         \o FromUtf8Lossy(Tail(bytes))

\* "Execution timed out".to_string().
TimedOutMessage ==
    <<69, 120, 101, 99, 117, 116, 105, 111, 110, 32, 116, 105, 109, 101, 100, 32, 111, 117, 116>>

\* run_code's 400 BAD_REQUEST.
BadRequest == [kind |-> "bad_request", stdout |-> <<>>, stderr |-> <<>>,
               exit_code |-> 0, timed_out |-> FALSE]

NoResult == [kind |-> "none", stdout |-> <<>>, stderr |-> <<>>,
             exit_code |-> 0, timed_out |-> FALSE]
ErrResult == [kind |-> "err", stdout |-> <<>>, stderr |-> <<>>,
              exit_code |-> 0, timed_out |-> FALSE]

\* The ? operator: execute returns the error at once.
ReturnErr ==
    /\ result' = ErrResult
    /\ epc' = "returned"

\* executor.rs 60-64 and container.rs 105-111: create the container, start
\* it; an error of either call is returned.
CreateContainer ==
    /\ UNCHANGED notExecVars
    /\ UNCHANGED <<request, inspect, code_file, ran_with>>
    /\ epc = "start"
    /\ \E outcome \in {"ok", "create_failed", "start_failed"} :
          /\ container' = CASE outcome = "ok" -> "running"
                            [] outcome = "create_failed" -> "none"
                            [] outcome = "start_failed" -> "created"
          /\ host_config' = IF outcome = "create_failed" THEN host_config
                            ELSE HostConfig(limits)
          /\ IF outcome = "ok"
             THEN epc' = "create_write_exec" /\ UNCHANGED result
             ELSE ReturnErr
    /\ UNCHANGED <<limits, stdout, stderr, timed_out, calls>>

\* executor.rs 74-88: create the exec that writes the code file.
CreateWriteExec ==
    /\ UNCHANGED notExecVars
    /\ UNCHANGED <<request, inspect, host_config, code_file, ran_with>>
    /\ epc = "create_write_exec"
    /\ \E ok \in BOOLEAN :
          IF ok THEN epc' = "start_write_exec" /\ UNCHANGED result ELSE ReturnErr
    /\ UNCHANGED <<limits, container, stdout, stderr, timed_out, calls>>

\* executor.rs 90-95: start it; only an attached exec gets the code.
StartWriteExec ==
    /\ UNCHANGED notExecVars
    /\ UNCHANGED <<request, inspect, host_config, code_file, ran_with>>
    /\ epc = "start_write_exec"
    /\ \E outcome \in {"attached", "detached", "failed"} :
          /\ CASE outcome = "attached" -> epc' = "write_all" /\ UNCHANGED result
               [] outcome = "detached" -> epc' = "create_run_exec" /\ UNCHANGED result
               [] outcome = "failed" -> ReturnErr
          /\ calls' = IF outcome = "failed" THEN calls
                      ELSE calls \cup {"start_write_exec"}
    /\ UNCHANGED <<limits, container, stdout, stderr, timed_out>>

\* executor.rs 97: write the code to the exec's stdin.
WriteAll ==
    /\ UNCHANGED notExecVars
    /\ UNCHANGED <<request, inspect, host_config, code_file, ran_with>>
    /\ epc = "write_all"
    /\ \E ok \in BOOLEAN :
          /\ IF ok THEN epc' = "shutdown" /\ UNCHANGED result ELSE ReturnErr
          /\ calls' = IF ok THEN calls \cup {"write_all"} ELSE calls
    /\ UNCHANGED <<limits, container, stdout, stderr, timed_out>>

\* executor.rs 98: shut the exec's stdin.
Shutdown ==
    /\ UNCHANGED notExecVars
    /\ UNCHANGED <<request, inspect, host_config, code_file, ran_with>>
    /\ epc = "shutdown"
    /\ \E ok \in BOOLEAN :
          IF ok THEN epc' = "create_run_exec" /\ UNCHANGED result ELSE ReturnErr
    /\ UNCHANGED <<limits, container, stdout, stderr, timed_out, calls>>

\* The write exec's process in the container, sh -c "cat > /code/main.<ext>"
\* (executor.rs 68-72): the shell creates the file, cat copies to it what
\* has reached its stdin.  The file is complete once cat has copied all the
\* bytes write_all sent; the process runs beside the execute call, which
\* never waits for it.
CatCopies ==
    /\ UNCHANGED notExecVars
    /\ UNCHANGED <<request, inspect, host_config, ran_with>>
    /\ "start_write_exec" \in calls
    /\ container = "running"
    /\ \/ code_file = "missing" /\ code_file' = "partial"
       \/ code_file = "partial" /\ "write_all" \in calls /\ code_file' = "complete"
    /\ UNCHANGED <<limits, epc, container, stdout, stderr, timed_out, calls, result>>

\* executor.rs 101-117: create the exec that runs the program.
CreateRunExec ==
    /\ UNCHANGED notExecVars
    /\ UNCHANGED <<request, inspect, host_config, code_file, ran_with>>
    /\ epc = "create_run_exec"
    /\ \E ok \in BOOLEAN :
          IF ok THEN epc' = "start_run_exec" /\ UNCHANGED result ELSE ReturnErr
    /\ UNCHANGED <<limits, container, stdout, stderr, timed_out, calls>>

\* executor.rs 210-215 (collect_output): start the run exec; an error is
\* returned by collect_output and then by execute (result?); a detached exec
\* gives no output.
StartRunExec ==
    /\ UNCHANGED notExecVars
    /\ UNCHANGED <<request, inspect, host_config, code_file>>
    /\ ran_with' = code_file
    /\ epc = "start_run_exec"
    /\ \E outcome \in {"attached", "detached", "failed"} :
          CASE outcome = "attached" -> epc' = "collecting" /\ UNCHANGED result
            [] outcome = "detached" -> epc' = "inspect" /\ UNCHANGED result
            [] outcome = "failed" -> ReturnErr
    /\ calls' = calls \cup {"start_run_exec"}
    /\ UNCHANGED <<limits, container, stdout, stderr, timed_out>>

\* executor.rs 216-226: one chunk of the exec's output is appended to its
\* accumulator.
Accumulate(acc, message) == acc \o message

CollectChunk ==
    /\ UNCHANGED notExecVars
    /\ UNCHANGED <<request, inspect, host_config, code_file, ran_with>>
    /\ epc = "collecting"
    /\ Len(stdout) + Len(stderr) < MaxProgramBytes
    /\ \E b \in ByteSamples :
          \/ stdout' = Accumulate(stdout, <<b>>) /\ UNCHANGED stderr
          \/ stderr' = Accumulate(stderr, <<b>>) /\ UNCHANGED stdout
    /\ calls' = calls \cup {"read_output"}
    /\ UNCHANGED <<limits, epc, container, timed_out, result>>

\* executor.rs 216, 229-232 and 127-130: the output stream ends (or yields an
\* error, which ends the loop alike); collect_output returns in time.
CollectEnd ==
    /\ UNCHANGED notExecVars
    /\ UNCHANGED <<request, inspect, host_config, code_file, ran_with>>
    /\ epc = "collecting"
    /\ epc' = "inspect"
    /\ UNCHANGED <<limits, container, stdout, stderr, timed_out, calls, result>>

\* executor.rs 121-126, 131-134: the timer of timeout_secs fires before
\* collect_output returns; the collector is dropped.
Timeout ==
    /\ UNCHANGED notExecVars
    /\ UNCHANGED <<request, inspect, host_config, code_file, ran_with>>
    /\ epc \in {"start_run_exec", "collecting"}
    /\ timed_out' = TRUE
    /\ epc' = "inspect"
    /\ UNCHANGED <<limits, container, stdout, stderr, calls, result>>

\* executor.rs 127-135: the (stdout, stderr, timed_out) of the match.
Collected ==
    IF timed_out
    THEN [stdout |-> <<>>, stderr |-> TimedOutMessage, timed_out |-> TRUE]
    ELSE [stdout |-> FromUtf8Lossy(stdout), stderr |-> FromUtf8Lossy(stderr),
          timed_out |-> FALSE]

\* inspect.exit_code values of the runtime: none, or an exit code.
NoExitCode == [some |-> FALSE, value |-> 0]
ExitCodeSamples == {NoExitCode, Some(0), Some(1)}
\* inspect_exec was not called, or failed.
NotInspected == [some |-> FALSE, value |-> -2]

\* unwrap_or(0).
ExitCodeOrZero(code) == IF code.some THEN code.value ELSE 0

\* executor.rs 139: inspect.exit_code.unwrap_or(-1).
ExitCode(code) == IF code.some THEN code.value ELSE -1

\* executor.rs 137-139: inspect the exec for the exit code; on both sides of
\* the match above.
InspectExec ==
    /\ UNCHANGED notExecVars
    /\ UNCHANGED <<request, host_config, code_file, ran_with>>
    /\ epc = "inspect"
    /\ calls' = calls \cup {IF timed_out THEN "inspect_after_timeout" ELSE "inspect"}
    /\ \/ ReturnErr /\ UNCHANGED inspect
       \/ \E code \in ExitCodeSamples :
             /\ inspect' = code
             /\ result' = [kind |-> "pending",
                           stdout |-> Collected.stdout,
                           stderr |-> Collected.stderr,
                           exit_code |-> ExitCode(code),
                           timed_out |-> Collected.timed_out]
             /\ epc' = "remove"
    /\ UNCHANGED <<limits, container, stdout, stderr, timed_out>>

\* container.rs 115-137: stop (its error dropped), then force-remove, whose
\* error is returned: the container and the runtime calls made.
RemoveContainer(stopped, removed) ==
    [container |-> IF removed THEN "removed"
                   ELSE IF stopped /\ container = "running" THEN "exited"
                   ELSE container,
     calls |-> {"remove_container", IF stopped THEN "stop" ELSE "stop_failed",
                IF removed THEN "force_remove" ELSE "force_remove_failed"},
     ok |-> removed]

\* execute that returns the error of remove_container (? instead of let _ =).
RemoveOrFail ==
    /\ UNCHANGED notExecVars
    /\ UNCHANGED <<request, inspect, host_config, code_file, ran_with>>
    /\ epc = "remove"
    /\ \E stopped \in BOOLEAN : \E removed \in BOOLEAN :
          LET r == RemoveContainer(stopped, removed)
          IN  /\ container' = r.container
              /\ calls' = calls \cup r.calls
              /\ result' = IF r.ok THEN [result EXCEPT !.kind = "ok"] ELSE ErrResult
    /\ epc' = "returned"
    /\ UNCHANGED <<limits, stdout, stderr, timed_out>>

\* executor.rs 141-152: remove the container, whatever comes of it, and
\* return the result.
RemoveAndReturn ==
    /\ UNCHANGED notExecVars
    /\ UNCHANGED <<request, inspect, host_config, code_file, ran_with>>
    /\ epc = "remove"
    /\ \E stopped \in BOOLEAN : \E removed \in BOOLEAN :
          LET r == RemoveContainer(stopped, removed)
          IN  /\ container' = r.container
              /\ calls' = calls \cup r.calls
    /\ result' = [result EXCEPT !.kind = "ok"]
    /\ epc' = "returned"
    /\ UNCHANGED <<limits, stdout, stderr, timed_out>>

\* sandbox.rs 59-107: run_code checks the code, builds the executor with the
\* snippet limits if there is none yet, and calls execute.
RunCode ==
    /\ UNCHANGED notExecVars
    /\ epc = "run_code"
    /\ IF CodeTooLarge(request.code) \/ CodeEmpty(request.code)
       THEN result' = BadRequest /\ epc' = "returned"
       ELSE UNCHANGED result /\ epc' = "start"
    /\ UNCHANGED <<limits, container, stdout, stderr, timed_out, calls,
                   request, inspect, host_config, code_file, ran_with>>

\* A request arrives at run_code, whose executor has the snippet limits, or
\* SandboxExecutor::execute is called on an executor built with_limits.
ExecInit ==
    /\ request \in {[entry |-> e, code |-> c] : e \in {"run_code", "execute"},
                                              c \in CodeSamples}
    /\ IF request.entry = "run_code"
       THEN limits = SnippetLimits /\ epc = "run_code"
       ELSE limits \in LimitSamples /\ epc = "start"
    /\ inspect = NotInspected
    /\ host_config = NoHostConfig
    /\ code_file = "missing"
    /\ ran_with = "none"
    /\ container = "none"
    /\ stdout = <<>>
    /\ stderr = <<>>
    /\ timed_out = FALSE
    /\ calls = {}
    /\ result = NoResult

ExecNext ==
    \/ RunCode
    \/ CreateContainer
    \/ CreateWriteExec
    \/ StartWriteExec
    \/ WriteAll
    \/ Shutdown
    \/ CatCopies
    \/ CreateRunExec
    \/ StartRunExec
    \/ CollectChunk
    \/ CollectEnd
    \/ Timeout
    \/ InspectExec
    \/ RemoveAndReturn

(***************************************************************************)
(* Fan-out channel of one room in detail: broadcast::channel(1024) of      *)
(* CollabRoom::new, subscribe in CollabRoom::join, send in                 *)
(* CollabRoom::broadcast_update and the recv arm of handle_collab's loop.  *)
(* The channel keeps the newest frames up to its capacity; a receiver that *)
(* is further behind finds Lagged at its next recv and is moved to the     *)
(* oldest frame kept.                                                      *)
(***************************************************************************)
\* The capacity of the channel, scaled down from 1024.
ScaledCapacity == 2
\* Frames one behaviour sends through the channel.
MaxSent == 4

\* The handlers connected to the room.
Peers == {"p1", "p2"}

\* Frames the handlers publish (ws.rs 306-307).
FanoutFrames == {EncodeSyncUpdate(EncodeV1({1}))}

\* Frames of sent the channel has overwritten.
Overwritten(history) ==
    IF Len(history) > ScaledCapacity THEN Len(history) - ScaledCapacity ELSE 0

\* join that subscribes from the oldest frame the channel keeps.
SubscribeFromOldest(p) ==
    /\ UNCHANGED notFanoutVars
    /\ ~subscribed[p]
    /\ subscribed' = [subscribed EXCEPT ![p] = TRUE]
    /\ cursor' = [cursor EXCEPT ![p] = Overwritten(sent)]
    /\ joinedAt' = [joinedAt EXCEPT ![p] = Len(sent)]
    /\ got' = [got EXCEPT ![p] = <<>>]
    /\ UNCHANGED <<sent, sendResult>>

\* room.rs 38-48: join returns broadcast.subscribe(), a receiver placed at
\* the channel's tail.
Subscribe(p) ==
    /\ UNCHANGED notFanoutVars
    /\ ~subscribed[p]
    /\ subscribed' = [subscribed EXCEPT ![p] = TRUE]
    /\ cursor' = [cursor EXCEPT ![p] = Len(sent)]
    /\ joinedAt' = [joinedAt EXCEPT ![p] = Len(sent)]
    /\ got' = [got EXCEPT ![p] = <<>>]
    /\ UNCHANGED <<sent, sendResult>>

\* A bounded queue per receiver: the send waits while a receiver has
\* ScaledCapacity frames pending.
PublishWaitsForReceivers(p, data) ==
    /\ UNCHANGED notFanoutVars
    /\ Len(sent) < MaxSent
    /\ \A q \in Peers : subscribed[q] => Len(sent) - cursor[q] < ScaledCapacity
    /\ IF \E q \in Peers : subscribed[q]
       THEN /\ sent' = Append(sent, [from |-> p, data |-> data])
            /\ sendResult' = "ok"
       ELSE /\ sent' = sent
            /\ sendResult' = "err"
    /\ UNCHANGED <<subscribed, cursor, joinedAt, got>>

\* room.rs 63-65: broadcast_update, let _ = broadcast.send(update).  With no
\* receiver the send returns Err and the frame is dropped; else the frame
\* takes the next slot, over the oldest frame when the channel is full.
Publish(p, data) ==
    /\ UNCHANGED notFanoutVars
    /\ Len(sent) < MaxSent
    /\ IF \E q \in Peers : subscribed[q]
       THEN /\ sent' = Append(sent, [from |-> p, data |-> data])
            /\ sendResult' = "ok"
       ELSE /\ sent' = sent
            /\ sendResult' = "err"
    /\ UNCHANGED <<subscribed, cursor, joinedAt, got>>

\* recv that yields the newest frame and leaves the receiver where it was.
RecvNewest(p) ==
    /\ UNCHANGED notFanoutVars
    /\ subscribed[p]
    /\ cursor[p] < Len(sent)
    /\ got' = [got EXCEPT ![p] = Append(@, Len(sent))]
    /\ UNCHANGED <<sent, sendResult, subscribed, joinedAt, cursor>>

\* ws.rs 330-334: Ok(data) = broadcast_rx.recv().  A receiver behind the
\* oldest frame kept gets Err(Lagged) and is moved to that frame; the arm
\* does not match and nothing is written.  Else the next frame is yielded
\* and written to the socket (the arm is taken again in a later turn of the
\* loop).
Recv(p) ==
    /\ UNCHANGED notFanoutVars
    /\ subscribed[p]
    /\ cursor[p] < Len(sent)
    /\ IF cursor[p] < Overwritten(sent)
       THEN /\ cursor' = [cursor EXCEPT ![p] = Overwritten(sent)]
            /\ got' = got
       ELSE /\ cursor' = [cursor EXCEPT ![p] = @ + 1]
            /\ got' = [got EXCEPT ![p] = Append(@, cursor[p] + 1)]
    /\ UNCHANGED <<sent, sendResult, subscribed, joinedAt>>

\* ws.rs 338-347: the handler returns and drops its receiver.
Unsubscribe(p) ==
    /\ UNCHANGED notFanoutVars
    /\ subscribed[p]
    /\ subscribed' = [subscribed EXCEPT ![p] = FALSE]
    /\ cursor' = [cursor EXCEPT ![p] = 0]
    /\ joinedAt' = [joinedAt EXCEPT ![p] = 0]
    /\ got' = [got EXCEPT ![p] = <<>>]
    /\ UNCHANGED <<sent, sendResult>>

\* room.rs 28-35: a new room's channel, its first receiver dropped.
FanoutInit ==
    /\ sent = <<>>
    /\ sendResult = "none"
    /\ subscribed = [p \in Peers |-> FALSE]
    /\ cursor = [p \in Peers |-> 0]
    /\ joinedAt = [p \in Peers |-> 0]
    /\ got = [p \in Peers |-> <<>>]

FanoutNext ==
    \E p \in Peers :
        \/ Subscribe(p)
        \/ \E data \in FanoutFrames : Publish(p, data)
        \/ Recv(p)
        \/ Unsubscribe(p)

(***************************************************************************)
(* One CollabDocument used by several tasks at once: doc is an             *)
(* Arc<RwLock<Doc>>; apply_update holds the lock for writing from before   *)
(* the decode until its transaction is dropped, the read calls hold it for *)
(* reading.  The transaction integrates the items of an update one by one. *)
(***************************************************************************)
\* Updates one behaviour applies.
MaxApplied == 2

\* Tasks that hold a clone of the document.
Tasks == {"t1", "t2", "t3"}
NoTask == "none"

\* Arguments of the calls: updates and state vectors, well-formed or not.
DocUpdates == {EncodeV1({1, 2}), EncodeV1({2}), <<9>>}
DocStateVectors == {EncodeV1({}), EncodeV1({1}), <<9>>}

ReadCalls ==
    {[op |-> "get_content", arg |-> <<>>], [op |-> "state_vector", arg |-> <<>>]}
    \cup {[op |-> "encode_diff", arg |-> sv] : sv \in DocStateVectors}
NoCall == [op |-> "none", arg |-> <<>>]
NoRead == [task |-> NoTask, call |-> NoCall, ok |-> TRUE, value |-> <<>>]

\* What a read call returns on a document.
ReadValue(call, doc) ==
    IF call.op = "get_content" THEN [ok |-> TRUE, value |-> GetContent(doc)]
    ELSE IF call.op = "state_vector" THEN [ok |-> TRUE, value |-> StateVector(doc)]
    ELSE LET d == EncodeDiff(doc, call.arg) IN [ok |-> d.ok, value |-> d.diff]

\* A task calls apply_update(update) and waits for the write lock.
CallApplyUpdate(t, update) ==
    /\ UNCHANGED notDocVars
    /\ tpc[t] = "idle"
    /\ Len(order) + Cardinality({u \in Tasks : tpc[u] \in {"write_wait", "write_locked"}}) < MaxApplied
    /\ tpc' = [tpc EXCEPT ![t] = "write_wait"]
    /\ top' = [top EXCEPT ![t] = [op |-> "apply_update", arg |-> update]]
    /\ readResult' = NoRead
    /\ UNCHANGED <<dlock, replica, todo, order>>

\* document.rs 47: self.doc.write().await returns the guard.
WriteLock(t) ==
    /\ UNCHANGED notDocVars
    /\ tpc[t] = "write_wait"
    /\ dlock.writer = NoTask /\ dlock.readers = {}
    /\ dlock' = [dlock EXCEPT !.writer = t]
    /\ tpc' = [tpc EXCEPT ![t] = "write_locked"]
    /\ readResult' = NoRead
    /\ UNCHANGED <<replica, top, todo, order>>

\* document.rs 48-49: decode; on failure return the error (the guard is
\* dropped), else open the transaction.
DecodeUpdate(t) ==
    /\ UNCHANGED notDocVars
    /\ tpc[t] = "write_locked"
    /\ LET u == DecodeV1(top[t].arg)
       IN  IF u.ok
           THEN /\ todo' = [todo EXCEPT ![t] = u.items]
                /\ order' = Append(order, top[t].arg)
                /\ tpc' = [tpc EXCEPT ![t] = "applying"]
                /\ UNCHANGED <<dlock, top>>
           ELSE /\ dlock' = [dlock EXCEPT !.writer = NoTask]
                /\ tpc' = [tpc EXCEPT ![t] = "idle"]
                /\ top' = [top EXCEPT ![t] = NoCall]
                /\ UNCHANGED <<todo, order>>
    /\ readResult' = NoRead
    /\ UNCHANGED replica

\* document.rs 50: txn.apply_update integrates one more item.
Integrate(t) ==
    /\ UNCHANGED notDocVars
    /\ tpc[t] = "applying"
    /\ todo[t] # {}
    /\ LET i == CHOOSE x \in todo[t] : \A y \in todo[t] : x <= y
       IN  /\ replica' = [replica EXCEPT !.items = @ \cup {i}]
           /\ todo' = [todo EXCEPT ![t] = @ \ {i}]
    /\ readResult' = NoRead
    /\ UNCHANGED <<dlock, tpc, top, order>>

\* document.rs 51-52: Ok(()), the transaction and the guard are dropped.
CommitUpdate(t) ==
    /\ UNCHANGED notDocVars
    /\ tpc[t] = "applying"
    /\ todo[t] = {}
    /\ dlock' = [dlock EXCEPT !.writer = NoTask]
    /\ tpc' = [tpc EXCEPT ![t] = "idle"]
    /\ top' = [top EXCEPT ![t] = NoCall]
    /\ readResult' = NoRead
    /\ UNCHANGED <<replica, todo, order>>

\* A task calls get_content, state_vector or encode_diff and waits for the
\* read lock.
CallRead(t, call) ==
    /\ UNCHANGED notDocVars
    /\ tpc[t] = "idle"
    /\ tpc' = [tpc EXCEPT ![t] = "read_wait"]
    /\ top' = [top EXCEPT ![t] = call]
    /\ readResult' = NoRead
    /\ UNCHANGED <<dlock, replica, todo, order>>

\* A read lock that is granted while a writer holds the lock.
ReadLockUnchecked(t) ==
    /\ UNCHANGED notDocVars
    /\ tpc[t] = "read_wait"
    /\ dlock' = [dlock EXCEPT !.readers = @ \cup {t}]
    /\ tpc' = [tpc EXCEPT ![t] = "read_locked"]
    /\ readResult' = NoRead
    /\ UNCHANGED <<replica, top, todo, order>>

\* document.rs 56, 63, 70, 78: self.doc.read().await returns the guard.
ReadLock(t) ==
    /\ UNCHANGED notDocVars
    /\ tpc[t] = "read_wait"
    /\ dlock.writer = NoTask
    /\ dlock' = [dlock EXCEPT !.readers = @ \cup {t}]
    /\ tpc' = [tpc EXCEPT ![t] = "read_locked"]
    /\ readResult' = NoRead
    /\ UNCHANGED <<replica, top, todo, order>>

\* document.rs 64-65, 71-73, 79-81: read inside a read transaction, return;
\* the guard is dropped.
ReadAndReturn(t) ==
    /\ UNCHANGED notDocVars
    /\ tpc[t] = "read_locked"
    /\ LET v == ReadValue(top[t], replica)
       IN  readResult' = [task |-> t, call |-> top[t], ok |-> v.ok, value |-> v.value]
    /\ dlock' = [dlock EXCEPT !.readers = @ \ {t}]
    /\ tpc' = [tpc EXCEPT ![t] = "idle"]
    /\ top' = [top EXCEPT ![t] = NoCall]
    /\ UNCHANGED <<replica, todo, order>>

\* document.rs 19-24: CollabDocument::new, no task in a call.
DocInit ==
    /\ dlock = [writer |-> NoTask, readers |-> {}]
    /\ replica = NewDocument
    /\ tpc = [t \in Tasks |-> "idle"]
    /\ top = [t \in Tasks |-> NoCall]
    /\ todo = [t \in Tasks |-> {}]
    /\ order = <<>>
    /\ readResult = NoRead

DocNext ==
    \E t \in Tasks :
        \/ \E update \in DocUpdates : CallApplyUpdate(t, update)
        \/ WriteLock(t)
        \/ DecodeUpdate(t)
        \/ Integrate(t)
        \/ CommitUpdate(t)
        \/ \E call \in ReadCalls : CallRead(t, call)
        \/ ReadLock(t)
        \/ ReadAndReturn(t)

(***************************************************************************)
(* Two replicas (CollabDocument::new each) that are handed updates through *)
(* apply_update, each update at most once per replica, in any order.       *)
(***************************************************************************)
Replicas == {"r1", "r2"}

\* Updates handed to the replicas: overlapping, disjoint, and one that does
\* not decode.
ReplicaUpdates == {EncodeV1({1}), EncodeV1({2}), EncodeV1({1, 2}), <<9>>}

\* The updates of a log.
Applied(log) == {log[i] : i \in 1..Len(log)}

\* document.rs 46-52 on replica r: apply_update(update); its error, if any,
\* is returned to the caller and the replica is as before.
Deliver(r, update) ==
    /\ UNCHANGED notReplicaVars
    /\ update \notin Applied(replicaLog[r])
    /\ replicaDoc' = [replicaDoc EXCEPT ![r] = ApplyUpdate(@, update).doc]
    /\ replicaLog' = [replicaLog EXCEPT ![r] = Append(@, update)]

\* document.rs 19-24: fresh replicas.
ReplicaInit ==
    /\ replicaDoc = [r \in Replicas |-> NewDocument]
    /\ replicaLog = [r \in Replicas |-> <<>>]

ReplicaNext == \E r \in Replicas : \E update \in ReplicaUpdates : Deliver(r, update)

(***************************************************************************)
(* A source replica and a second replica that are handed updates any       *)
(* number of times and bring each other up to date: one asks with its      *)
(* state vector, the other answers with encode_diff, the first applies     *)
(* the answer (the Step1/Step2 exchange of ws.rs 173-181, 268-290).        *)
(***************************************************************************)
\* Calls of apply_update on the two replicas together.
MaxLog == 4

ResyncUpdates == {EncodeV1({1, 2}), EncodeV1({2}), <<9>>}

TotalLog == Len(replicaLog["r1"]) + Len(replicaLog["r2"])

\* document.rs 46-52 on replica r: apply_update(update), whether or not the
\* replica was handed update before.
Redeliver(r, update) ==
    /\ UNCHANGED notReplicaVars
    /\ TotalLog < MaxLog
    /\ replicaDoc' = [replicaDoc EXCEPT ![r] = ApplyUpdate(@, update).doc]
    /\ replicaLog' = [replicaLog EXCEPT ![r] = Append(@, update)]

\* document.rs 62-66, 69-74, 46-52: replica r takes state_vector(), replica
\* q answers encode_diff of it, r calls apply_update on the answer.
Resync(r, q) ==
    /\ UNCHANGED notReplicaVars
    /\ r # q
    /\ TotalLog < MaxLog
    /\ LET d == EncodeDiff(replicaDoc[q], StateVector(replicaDoc[r]))
       IN  /\ d.ok
           /\ replicaDoc' = [replicaDoc EXCEPT ![r] = ApplyUpdate(@, d.diff).doc]
           /\ replicaLog' = [replicaLog EXCEPT ![r] = Append(@, d.diff)]

\* document.rs 19-38: the source is created empty or with text, the other
\* replica empty.
ResyncInit ==
    /\ replicaDoc \in {[r \in Replicas |-> IF r = "r1" THEN d ELSE NewDocument] :
                          d \in {NewDocument, DocumentWithContent(<<3>>)}}
    /\ replicaLog = [r \in Replicas |-> <<>>]

ResyncNext ==
    \/ \E r \in Replicas : \E update \in ResyncUpdates : Redeliver(r, update)
    \/ \E r \in Replicas : \E q \in Replicas : Resync(r, q)

(***************************************************************************)
(* One call of the framing codec (ws.rs 28-97, decoded as ws.rs 253-299    *)
(* decodes), in a build with or without overflow checks.                   *)
(***************************************************************************)
\* Byte strings of up to n bytes over an alphabet.
RECURSIVE BytesUpTo(_, _)
BytesUpTo(alphabet, n) ==
    IF n = 0 THEN {<<>>}
    ELSE LET shorter == BytesUpTo(alphabet, n - 1)
         IN  shorter \cup {Append(b, x) : b \in shorter, x \in alphabet}

\* Inputs of read_var_uint / read_var_uint8_array: bytes with and without
\* the high bit, up to one byte more than the word's varint takes.
DecoderInputs == BytesUpTo({0, 1, 127, 128, 255}, 3)

\* Payloads of frames: short ones, and ones whose length takes two bytes.
Payloads ==
    BytesUpTo({0, 2, 128}, 2)
    \cup {[i \in 1..n |-> 255] : n \in {127, 128, 129}}

NoArg == [op |-> "none", n |-> 0, data |-> <<>>, pos |-> 0]

CodecArgs ==
    {[op |-> "var_uint", n |-> n, data |-> <<>>, pos |-> 0] : n \in 0..WordMax}
    \cup {[op |-> "read", n |-> 0, data |-> d, pos |-> p] :
             d \in DecoderInputs, p \in {0, 1}}
    \cup {[op |-> o, n |-> 0, data |-> d, pos |-> 0] :
             o \in {"sync_step1", "sync_step2", "sync_update"}, d \in Payloads}

NoVarUint == [ok |-> FALSE, panic |-> FALSE, value |-> 0, pos |-> 0]
NoArray == [ok |-> FALSE, panic |-> FALSE, value |-> <<>>, pos |-> 0]
NoOut == [done |-> FALSE, buf |-> <<>>, first |-> NoVarUint, second |-> NoVarUint,
          array |-> NoArray]

\* ws.rs 28-34, 37-53: write_var_uint(&mut buf, n) into an empty buffer,
\* then read_var_uint(&buf, &mut 0).
RoundTripVarUint ==
    /\ UNCHANGED notCodecVars
    /\ carg.op = "var_uint"
    /\ ~cout.done
    /\ LET buf == WriteVarUint(carg.n)
       IN  cout' = [NoOut EXCEPT !.done = TRUE, !.buf = buf,
                                 !.first = ReadVarUint(buf, 0)]
    /\ UNCHANGED <<overflow_checks, carg>>

\* ws.rs 37-53, 62-70: read_var_uint and read_var_uint8_array on bytes a
\* client chose, from position pos.
DecodeInput ==
    /\ UNCHANGED notCodecVars
    /\ carg.op = "read"
    /\ ~cout.done
    /\ cout' = [NoOut EXCEPT !.done = TRUE, !.buf = carg.data,
                             !.first = ReadVarUint(carg.data, carg.pos),
                             !.array = ReadVarUint8Array(carg.data, carg.pos)]
    /\ UNCHANGED <<overflow_checks, carg>>

\* ws.rs 73-97: the frame the encoder named by op builds for a payload.
EncodeFrame(op, payload) ==
    IF op = "sync_step1" THEN EncodeSyncStep1(payload)
    ELSE IF op = "sync_step2" THEN EncodeSyncStep2(payload)
    ELSE EncodeSyncUpdate(payload)

\* ws.rs 73-97, then 253-299: a frame is encoded and read back as the
\* handler reads a binary frame.
RoundTripFrame ==
    /\ UNCHANGED notCodecVars
    /\ carg.op \in {"sync_step1", "sync_step2", "sync_update"}
    /\ ~cout.done
    /\ LET buf == EncodeFrame(carg.op, carg.data)
       IN  cout' = [done |-> TRUE, buf |-> buf, first |-> FrameType(buf),
                    second |-> SyncType(buf), array |-> SyncPayload(buf)]
    /\ UNCHANGED <<overflow_checks, carg>>

\* No codec call is made; the build has no overflow checks.
CodecIdle ==
    /\ overflow_checks = FALSE
    /\ carg = NoArg
    /\ cout = NoOut

CodecInit ==
    /\ overflow_checks \in BOOLEAN
    /\ carg \in CodecArgs
    /\ cout = NoOut

CodecNext == RoundTripVarUint \/ DecodeInput \/ RoundTripFrame

(***************************************************************************)
(* A new session's prologue (join, state vector, Sync Step1) beside the    *)
(* Sync Update arms of the sessions already in the room.  The channel      *)
(* holds 1024 frames and the receiver is never that far behind.            *)
(***************************************************************************)
Writers == {"w1", "w2"}
MaxWrites == 3

\* The prologue with the state vector read before the join.
PrologueStateVectorFirst == <<"state_vector", "join", "send">>

\* ws.rs 170-177: room.join, room.document.state_vector(), then the send of
\* Sync Step1.
Prologue == <<"join", "state_vector", "send">>

NotSubscribed == [some |-> FALSE, value |-> 0]

\* Updates the writers' clients send.
WriterUpdates == {EncodeV1({1}), EncodeV1({2}), EncodeV1({1, 3}), <<9>>}

InPrologue(op) == nstep <= Len(Prologue) /\ Prologue[nstep] = op

\* room.rs 37-48 (ws.rs 171): join returns broadcast.subscribe(), a receiver
\* of the frames sent from now on.
PrologueJoin ==
    /\ UNCHANGED notNewcomerVars
    /\ InPrologue("join")
    /\ nrx' = Some(Len(nchan))
    /\ nstep' = nstep + 1
    /\ UNCHANGED <<ndoc, nchan, nsv, heard, wpend, nwrites>>

\* ws.rs 175: the server's state vector is read.
PrologueStateVector ==
    /\ UNCHANGED notNewcomerVars
    /\ InPrologue("state_vector")
    /\ nsv' = Some(StateVector(ndoc))
    /\ nstep' = nstep + 1
    /\ UNCHANGED <<ndoc, nchan, nrx, heard, wpend, nwrites>>

\* ws.rs 176-177: Sync Step1 is sent and the handler enters its loop.
PrologueSend ==
    /\ UNCHANGED notNewcomerVars
    /\ InPrologue("send")
    /\ nstep' = nstep + 1
    /\ UNCHANGED <<ndoc, nchan, nrx, nsv, heard, wpend, nwrites>>

\* ws.rs 330-334: in the loop, broadcast_rx.recv() yields the next frame.
NewcomerRecv ==
    /\ UNCHANGED notNewcomerVars
    /\ nstep > Len(Prologue)
    /\ nrx.some
    /\ nrx.value < Len(nchan)
    /\ heard' = heard \cup {nchan[nrx.value + 1]}
    /\ nrx' = Some(nrx.value + 1)
    /\ UNCHANGED <<ndoc, nchan, nstep, nsv, wpend, nwrites>>

\* ws.rs 294-304: a writer's Sync Update arm applies the update; a failed
\* apply ends the arm.
WriterApply(w, update) ==
    /\ UNCHANGED notNewcomerVars
    /\ wpend[w] = <<>>
    /\ nwrites < MaxWrites
    /\ nwrites' = nwrites + 1
    /\ LET a == ApplyUpdate(ndoc, update)
       IN  /\ ndoc' = a.doc
           /\ wpend' = [wpend EXCEPT ![w] = IF a.ok THEN EncodeSyncUpdate(update)
                                                  ELSE <<>>]
    /\ UNCHANGED <<nchan, nstep, nrx, nsv, heard>>

\* ws.rs 306-308: the frame is broadcast.
WriterBroadcast(w) ==
    /\ UNCHANGED notNewcomerVars
    /\ wpend[w] # <<>>
    /\ nchan' = BroadcastUpdate(nchan, wpend[w])
    /\ wpend' = [wpend EXCEPT ![w] = <<>>]
    /\ UNCHANGED <<ndoc, nstep, nrx, nsv, heard, nwrites>>

NewcomerIdle ==
    /\ ndoc = NewDocument
    /\ nchan = <<>>
    /\ nstep = 1
    /\ nrx = NotSubscribed
    /\ nsv = None
    /\ heard = {}
    /\ wpend = [w \in Writers |-> <<>>]
    /\ nwrites = 0

NewcomerNext ==
    \/ PrologueJoin
    \/ PrologueStateVector
    \/ PrologueSend
    \/ NewcomerRecv
    \/ \E w \in Writers : \E update \in WriterUpdates : WriterApply(w, update)
    \/ \E w \in Writers : WriterBroadcast(w)

(***************************************************************************)
(* run_code: requests that share one executor behind a mutex.  execute is  *)
(* taken in three steps: the container is created, the steps between      *)
(* creation and teardown succeed or one of them returns its error, and the *)
(* container is removed.                                                   *)
(***************************************************************************)
Requests == {1, 2, 3}
NoHolder == 0

\* sandbox.rs 59-76: the checks of the code; a rejected request returns.
Validate(q) ==
    /\ UNCHANGED notRunVars
    /\ rpc[q] = "idle"
    /\ \E valid \in BOOLEAN :
          rpc' = [rpc EXCEPT ![q] = IF valid THEN "waiting" ELSE "returned"]
    /\ UNCHANGED <<mutex, executor, live>>

\* sandbox.rs 79-80: executor_lock.lock().await returns the guard.
Lock(q) ==
    /\ UNCHANGED notRunVars
    /\ rpc[q] = "waiting"
    /\ mutex = NoHolder
    /\ mutex' = q
    /\ rpc' = [rpc EXCEPT ![q] = "locked"]
    /\ UNCHANGED <<executor, live>>

\* sandbox.rs 82-95: the executor is built if there is none; when that
\* fails the request returns and the guard is dropped.
EnsureExecutor(q) ==
    /\ UNCHANGED notRunVars
    /\ rpc[q] = "locked"
    /\ IF executor
       THEN rpc' = [rpc EXCEPT ![q] = "ready"] /\ UNCHANGED <<mutex, executor>>
       ELSE \E ok \in BOOLEAN :
               IF ok
               THEN /\ executor' = TRUE
                    /\ rpc' = [rpc EXCEPT ![q] = "ready"]
                    /\ UNCHANGED mutex
               ELSE /\ rpc' = [rpc EXCEPT ![q] = "returned"]
                    /\ mutex' = NoHolder
                    /\ UNCHANGED executor
    /\ UNCHANGED live

\* sandbox.rs 107, executor.rs 60-64: execute creates its container; when
\* that fails run_code returns the error and the guard is dropped.
CreateForRequest(q) ==
    /\ UNCHANGED notRunVars
    /\ rpc[q] = "ready"
    /\ mutex = q
    /\ \E ok \in BOOLEAN :
          IF ok
          THEN /\ live' = live \cup {q}
               /\ rpc' = [rpc EXCEPT ![q] = "created"]
               /\ UNCHANGED mutex
          ELSE /\ rpc' = [rpc EXCEPT ![q] = "returned"]
               /\ mutex' = NoHolder
               /\ UNCHANGED live
    /\ UNCHANGED executor

\* executor.rs 74-139: the execs; an error of one of them is returned by ?
\* with the container left as it is.
RunInContainer(q) ==
    /\ UNCHANGED notRunVars
    /\ rpc[q] = "created"
    /\ \E ok \in BOOLEAN :
          IF ok
          THEN rpc' = [rpc EXCEPT ![q] = "ran"] /\ UNCHANGED mutex
          ELSE rpc' = [rpc EXCEPT ![q] = "returned"] /\ mutex' = NoHolder
    /\ UNCHANGED <<executor, live>>

\* executor.rs 141-152, sandbox.rs 107-122: remove_container, whose failure
\* is ignored; execute and run_code return and the guard is dropped.
RemoveForRequest(q) ==
    /\ UNCHANGED notRunVars
    /\ rpc[q] = "ran"
    /\ \E removed \in BOOLEAN :
          live' = IF removed THEN live \ {q} ELSE live
    /\ rpc' = [rpc EXCEPT ![q] = "returned"]
    /\ mutex' = NoHolder
    /\ UNCHANGED executor

RunIdle ==
    /\ mutex = NoHolder
    /\ executor = FALSE
    /\ rpc = [q \in Requests |-> "idle"]
    /\ live = {}

RunNext ==
    \E q \in Requests :
        \/ Validate(q)
        \/ Lock(q)
        \/ EnsureExecutor(q)
        \/ CreateForRequest(q)
        \/ RunInContainer(q)
        \/ RemoveForRequest(q)

(***************************************************************************)
(* The run recipe: the command build_run_command gives the run exec, and   *)
(* the files the kernel is asked to execute while it runs in a container   *)
(* whose /tmp and /code are tmpfs mounts.                                  *)
(***************************************************************************)
\* models.rs 10-24: enum Language.
Languages ==
    {"Rust", "Python", "JavaScript", "TypeScript", "Go", "Java", "CSharp",
     "Cpp", "C", "Ruby", "Php", "Swift", "Kotlin"}

NoLanguage == "none"

\* models.rs 28-44: Language::extension.
Extension(language) ==
    CASE language = "Rust" -> "rs"
      [] language = "Python" -> "py"
      [] language = "JavaScript" -> "js"
      [] language = "TypeScript" -> "ts"
      [] language = "Go" -> "go"
      [] language = "Java" -> "java"
      [] language = "CSharp" -> "cs"
      [] language = "Cpp" -> "cpp"
      [] language = "C" -> "c"
      [] language = "Ruby" -> "rb"
      [] language = "Php" -> "php"
      [] language = "Swift" -> "swift"
      [] language = "Kotlin" -> "kt"

\* executor.rs 67: format!("main.{}", request.language.extension()).
Filename(language) == "main." \o Extension(language)

\* container.rs 82-85: the tmpfs mounts of the container and their options.
Tmpfs ==
    [d \in {"/tmp", "/code"} |-> {"rw", "noexec", "nosuid"}]

\* A file: the mount it lies in and its name.  A program found on PATH lies
\* in the image, the read-only root filesystem.
InImage(name) == [dir |-> "image", name |-> name]
InTmp(name) == [dir |-> "/tmp", name |-> name]
InCode(name) == [dir |-> "/code", name |-> name]
NoFile == [dir |-> "none", name |-> "none"]

\* The kernel executes a file unless its mount has the noexec option.
MayExec(f) == ~(f.dir \in DOMAIN Tmpfs /\ "noexec" \in Tmpfs[f.dir])

\* One command of a recipe: the file executed, the file it writes, and
\* whether it is the shell that runs the rest of the chain.
Command(program, output) == [program |-> program, output |-> output, shell |-> FALSE]
Shell == [program |-> InImage("sh"), output |-> NoFile, shell |-> TRUE]

\* executor.rs 166-170, 178-187: sh -c "<compiler> main.x -o /tmp/out &&
\* /tmp/out".
CompileAndRun(compiler) ==
    <<Shell, Command(InImage(compiler), InTmp("out")), Command(InTmp("out"), NoFile)>>

\* executor.rs 155-199: build_run_command, the chain of commands of the
\* language and the arguments appended to the command.
BuildRunCommand(language, filename, args) ==
    [chain |->
        CASE language = "Python" -> <<Command(InImage("python3"), NoFile)>>
          [] language = "JavaScript" -> <<Command(InImage("node"), NoFile)>>
          [] language = "TypeScript" -> <<Command(InImage("npx"), NoFile)>>
          [] language = "Rust" -> CompileAndRun("rustc")
          [] language = "Go" -> <<Command(InImage("go"), NoFile)>>
          [] language = "Java" ->
                <<Shell, Command(InImage("javac"), InCode("Main.class")),
                  Command(InImage("java"), NoFile)>>
          [] language = "CSharp" -> <<Command(InImage("dotnet"), NoFile)>>
          [] language = "Cpp" -> CompileAndRun("g++")
          [] language = "C" -> CompileAndRun("gcc")
          [] language = "Ruby" -> <<Command(InImage("ruby"), NoFile)>>
          [] language = "Php" -> <<Command(InImage("php"), NoFile)>>
          [] language = "Swift" -> <<Command(InImage("swift"), NoFile)>>
          [] language = "Kotlin" ->
                <<Shell, Command(InImage("kotlinc"), InTmp("out.jar")),
                  Command(InImage("java"), NoFile)>>,
     source |-> InCode(filename),
     args |-> args]

NoCommand == [chain |-> <<>>, source |-> NoFile, args |-> <<>>]

\* The argument lists of the requests.
ArgLists == {<<>>, <<"x">>, <<"x", "y">>}

\* executor.rs 67, 102, 104-117: the code file is main.<extension> in /code;
\* the run exec is created with the run command of the language.
StartRecipe(language, args) ==
    /\ UNCHANGED notRecipeVars
    /\ rstatus = "idle"
    /\ rlang' = language
    /\ rcmd' = BuildRunCommand(language, Filename(language), args)
    /\ rfiles' = {InCode(Filename(language))}
    /\ rexecs' = {}
    /\ rstatus' = "running"

\* The next command of the chain: the kernel is asked to execute its
\* program and refuses on a noexec mount; a command that exits 0 has written
\* its output and && goes on, any other exit status ends the chain.
Execve ==
    /\ UNCHANGED notRecipeVars
    /\ rstatus = "running"
    /\ rcmd.chain # <<>>
    /\ LET c == Head(rcmd.chain)
       IN  /\ rexecs' = rexecs \cup {c.program}
           /\ IF ~MayExec(c.program)
              THEN /\ rstatus' = "denied"
                   /\ UNCHANGED <<rcmd, rfiles>>
              ELSE \E exit \in IF c.shell THEN {0} ELSE {0, 1} :
                      IF exit = 0
                      THEN /\ rcmd' = [rcmd EXCEPT !.chain = Tail(@)]
                           /\ rfiles' = rfiles \cup ({c.output} \ {NoFile})
                           /\ rstatus' = IF Tail(rcmd.chain) = <<>>
                                         THEN "exited" ELSE "running"
                      ELSE /\ rstatus' = "failed"
                           /\ UNCHANGED <<rcmd, rfiles>>
    /\ UNCHANGED rlang

RecipeIdle ==
    /\ rlang = NoLanguage
    /\ rcmd = NoCommand
    /\ rfiles = {}
    /\ rexecs = {}
    /\ rstatus = "idle"

RecipeNext ==
    \/ \E language \in Languages, args \in ArgLists : StartRecipe(language, args)
    \/ Execve

(***************************************************************************)
(* Specifications.  Spec: the collaboration core, no execution running.    *)
(* ExecSpec: one execute call, no connection open.  Each specification     *)
(* leaves the state of the other parts at its initial value.               *)
(***************************************************************************)
ExecIdle ==
    /\ limits = SnippetLimits
    /\ request = [entry |-> "execute", code |-> [len |-> 1, trimmed |-> 1]]
    /\ inspect = NotInspected
    /\ host_config = NoHostConfig
    /\ code_file = "missing"
    /\ ran_with = "none"
    /\ epc = "start"
    /\ container = "none"
    /\ stdout = <<>>
    /\ stderr = <<>>
    /\ timed_out = FALSE
    /\ calls = {}
    /\ result = NoResult

Init == CollabInit /\ ExecIdle /\ FanoutInit /\ DocInit /\ ReplicaInit /\ CodecIdle /\ NewcomerIdle /\ RunIdle /\ RecipeIdle

Next == CollabNext

Spec == Init /\ [][Next]_vars

ExecSpecInit == CollabInit /\ ExecInit /\ FanoutInit /\ DocInit /\ ReplicaInit /\ CodecIdle /\ NewcomerIdle /\ RunIdle /\ RecipeIdle

ExecSpecNext == ExecNext

ExecSpec == ExecSpecInit /\ [][ExecSpecNext]_vars

\* FrameSpec: the collaboration core with clients that send every kind of
\* binary frame.  Two connections are open at a time: a frame's effects
\* are on its own session and on the one other session of the room.
FrameSessions == {1, 2}

FrameSpecNext ==
    \E s \in FrameSessions :
        \/ Admit(s)
        \/ Join(s)
        \/ SendStep1(s)
        \/ RecvBinary(s, InboundBinary)
        \/ BroadcastPending(s)
        \/ RecvClose(s)
        \/ RecvError(s)
        \/ Forward(s)
        \/ CleanupAndReturn(s)

FrameSpec == Init /\ [][FrameSpecNext]_vars

\* The handlers of two connections, with clients that send text messages.
TextSpecNext ==
    \E s \in FrameSessions :
        \/ Admit(s)
        \/ Join(s)
        \/ SendStep1(s)
        \/ RecvText(s, InboundText)
        \/ BroadcastPending(s)
        \/ RecvClose(s)
        \/ RecvError(s)
        \/ Forward(s)
        \/ CleanupAndReturn(s)

TextSpec == Init /\ [][TextSpecNext]_vars

\* The handlers of two connections whose inbound streams may end without a
\* Close frame or a read error.
StreamSpecNext ==
    \E s \in FrameSessions :
        \/ Admit(s)
        \/ Join(s)
        \/ SendStep1(s)
        \/ RecvBinary(s, UpdateFrames)
        \/ BroadcastPending(s)
        \/ RecvClose(s)
        \/ RecvError(s)
        \/ StreamEnd(s)
        \/ Forward(s)
        \/ CleanupAndReturn(s)

\* The steps a handler takes without its client: the runtime runs a task
\* that can go on.
HandlerStep(s) ==
    Join(s) \/ SendStep1(s) \/ BroadcastPending(s) \/ Forward(s) \/ CleanupAndReturn(s)

StreamSpec ==
    /\ Init
    /\ [][StreamSpecNext]_vars
    /\ \A s \in FrameSessions : WF_vars(HandlerStep(s))

\* FanoutSpec: one room's channel and the handlers subscribed to it.
FanoutSpecInit == CollabInit /\ ExecIdle /\ FanoutInit /\ DocInit /\ ReplicaInit /\ CodecIdle /\ NewcomerIdle /\ RunIdle /\ RecipeIdle

FanoutSpecNext == FanoutNext

FanoutSpec == FanoutSpecInit /\ [][FanoutSpecNext]_vars

\* DocSpec: one document and the tasks that call it.
DocSpecInit == CollabInit /\ ExecIdle /\ FanoutInit /\ DocInit /\ ReplicaInit /\ CodecIdle /\ NewcomerIdle /\ RunIdle /\ RecipeIdle

DocSpecNext == DocNext

DocSpec == DocSpecInit /\ [][DocSpecNext]_vars

\* ReplicaSpec: two replicas and the updates handed to them.
ReplicaSpecInit == CollabInit /\ ExecIdle /\ FanoutInit /\ DocInit /\ ReplicaInit /\ CodecIdle /\ NewcomerIdle /\ RunIdle /\ RecipeIdle

ReplicaSpecNext == ReplicaNext

ReplicaSpec == ReplicaSpecInit /\ [][ReplicaSpecNext]_vars

\* ResyncSpec: two replicas that are handed updates and resynchronise.
ResyncSpecInit == CollabInit /\ ExecIdle /\ FanoutInit /\ DocInit /\ ResyncInit /\ CodecIdle /\ NewcomerIdle /\ RunIdle /\ RecipeIdle

ResyncSpecNext == ResyncNext

ResyncSpec == ResyncSpecInit /\ [][ResyncSpecNext]_vars

\* CodecSpec: one call of the codec on each input, in each build.
CodecSpecInit == CollabInit /\ ExecIdle /\ FanoutInit /\ DocInit /\ ReplicaInit /\ CodecInit /\ NewcomerIdle /\ RunIdle /\ RecipeIdle

CodecSpecNext == CodecNext

CodecSpec == CodecSpecInit /\ [][CodecSpecNext]_vars

\* One session being admitted while two others handle Sync Update frames.
NewcomerSpecInit == CollabInit /\ ExecIdle /\ FanoutInit /\ DocInit /\ ReplicaInit /\ CodecIdle /\ NewcomerIdle /\ RunIdle /\ RecipeIdle

NewcomerSpecNext == NewcomerNext

NewcomerSpec == NewcomerSpecInit /\ [][NewcomerSpecNext]_vars

\* Three requests to run_code.
RunSpecInit == CollabInit /\ ExecIdle /\ FanoutInit /\ DocInit /\ ReplicaInit /\ CodecIdle /\ NewcomerIdle /\ RunIdle /\ RecipeIdle

RunSpecNext == RunNext

RunSpec == RunSpecInit /\ [][RunSpecNext]_vars

\* The run recipe of one execution, nothing else running.
RecipeSpecInit == CollabInit /\ ExecIdle /\ FanoutInit /\ DocInit /\ ReplicaInit /\ CodecIdle /\ NewcomerIdle /\ RunIdle /\ RecipeIdle

RecipeSpecNext == RecipeNext

RecipeSpec == RecipeSpecInit /\ [][RecipeSpecNext]_vars

(***************************************************************************)
(* Properties of the collaboration core.                                   *)
(***************************************************************************)
Participants(r) == DOMAIN rooms[r].participants

\* The payload of a Sync Update frame, as the handler's decoder reads it.
IsSyncUpdateFrame(frame) ==
    Len(frame) >= 2 /\ frame[1] = MSG_SYNC /\ frame[2] = SYNC_UPDATE
PayloadOf(frame) == ReadVarUint8Array(frame, 2)

\* C1: whenever a participant is in a room, that room is the registry's
\* current entry for the participant's document id (so a session never joins
\* a room that cleanup has removed, and all live sessions of one document
\* share one room).
C1_ParticipantRoomIsRegistered ==
    \A r \in RoomIds : \A u \in Participants(r) : registry[file[u]] = r

C6_WriteErrorLeavesRunning ==
    (wire.to # 0 /\ ~wire.ok /\ IsSyncUpdateFrame(wire.data)) => pc[wire.to] # "running"

\* C7: a step removes a registry entry only if it is a cleanup of that
\* document id and the room's participant set is empty; a cleanup of an
\* empty room removes the entry, a cleanup of a room with a participant
\* leaves the registry as it is, and leave never changes the registry.
C7_CleanupRemovesIffEmpty ==
    [][ /\ \A d \in DocIds :
              registry'[d] # registry[d] /\ registry[d] # NoRoom =>
                  /\ registry'[d] = NoRoom
                  /\ DOMAIN rooms[registry[d]].participants = {}
                  /\ \E s \in Sessions : pc[s] = "left" /\ pc'[s] = "done" /\ file[s] = d
        /\ \A s \in Sessions :
              pc[s] = "left" /\ pc'[s] = "done" =>
                  /\ \A d \in DocIds : d # file[s] => registry'[d] = registry[d]
                  /\ registry'[file[s]] =
                        IF /\ registry[file[s]] # NoRoom
                           /\ DOMAIN rooms[registry[file[s]]].participants = {}
                        THEN NoRoom
                        ELSE registry[file[s]]
        /\ \A s \in Sessions :
              pc[s] = "running" /\ pc'[s] = "left" =>
                  /\ registry' = registry
                  /\ rooms'[room[s]].live
                  /\ s \notin DOMAIN rooms'[room[s]].participants ]_vars

\* C7 witness: the last participant has left and returned, its cleanup has
\* removed the room.
C7_Witness ==
    \E s \in Sessions :
        /\ pc[s] = "done"
        /\ registry[file[s]] = NoRoom
        /\ \A t \in Sessions : pc[t] \in {"idle", "done"}

\* C8: get_or_create returns the registry's room when there is one, whatever
\* the content argument, and changes neither the registry nor any room;
\* otherwise it creates a room, enters it in the registry and returns it.
\* So two calls with no removal in between return the same room.
ContentSamples == {None, Some(<<3>>)}

C8_GetOrCreateReturnsEntry ==
    /\ [](\A d \in DocIds : \A c \in ContentSamples :
            LET g == GetOrCreate(d, c)
            IN  IF registry[d] # NoRoom
                THEN g.room = registry[d] /\ g.registry = registry /\ g.rooms = rooms
                ELSE /\ ~rooms[g.room].live
                     /\ g.registry = [registry EXCEPT ![d] = g.room]
                     /\ g.rooms[g.room].live
                     /\ \A r \in RoomIds : r # g.room => g.rooms[r] = rooms[r])
    /\ [][\A s \in Sessions :
            pc[s] # "admitted" /\ pc'[s] = "admitted" =>
                /\ room'[s] = registry'[file'[s]]
                /\ registry[file'[s]] # NoRoom =>
                      registry' = registry /\ rooms' = rooms ]_vars

\* C8 witness: two handlers called get_or_create for one document id and hold
\* the same room, the registry's.
C8_Witness ==
    \E s \in Sessions : \E t \in Sessions :
        /\ s # t
        /\ room[s] # NoRoom
        /\ room[s] = room[t]
        /\ registry[file[s]] = room[s]
        /\ pc[t] = "admitted"

\* C9: a room that get_or_create creates for a connection has an empty
\* document and nobody in it, whatever the rooms before it held.
C9_NewRoomIsEmpty ==
    [][\A s \in Sessions :
          pc[s] # "admitted" /\ pc'[s] = "admitted" /\ registry[file'[s]] = NoRoom =>
              /\ GetContent(rooms'[room'[s]].document) = NoContent
              /\ rooms'[room'[s]].document.items = {}
              /\ DOMAIN rooms'[room'[s]].participants = {} ]_vars

\* C9 witness: the old room got an update, its last participant left and a
\* cleanup removed it; a later session of the same document id holds the new
\* room, whose content is empty.
C9_Witness ==
    \E s \in Sessions : \E t \in Sessions :
        /\ pc[s] = "left"
        /\ room[s] # registry[file[s]]
        /\ GetContent(rooms[room[s]].document) # NoContent
        /\ DOMAIN rooms[room[s]].participants = {}
        /\ file[t] = file[s]
        /\ pc[t] \in {"admitted", "joined", "running"}
        /\ room[t] = registry[file[t]]
        /\ GetContent(rooms[room[t]].document) = NoContent

\* C10: a Sync Update frame is on the room's channel, or about to be sent to
\* it, only as the re-encoding of a payload that decoded and that the
\* document already holds; and a document changes only by such an apply, the
\* step that makes the payload's frame the next thing to broadcast.
SyncUpdateApplied(frame, r) ==
    IsSyncUpdateFrame(frame) =>
        LET p == PayloadOf(frame)
        IN  /\ p.ok
            /\ frame = EncodeSyncUpdate(p.value)
            /\ DecodeV1(p.value).ok
            /\ DecodeV1(p.value).items \subseteq rooms[r].document.items

C10_ApplyThenBroadcast ==
    /\ [](/\ \A s \in Sessions :
               pend[s] # <<>> => IsSyncUpdateFrame(pend[s]) /\ SyncUpdateApplied(pend[s], room[s])
          /\ \A r \in RoomIds : \A i \in 1..Len(rooms[r].chan) :
               SyncUpdateApplied(rooms[r].chan[i], r))
    /\ [][\A r \in RoomIds :
            rooms[r].live /\ rooms'[r].live /\ rooms'[r].document # rooms[r].document =>
                \E s \in Sessions :
                    /\ room[s] = r
                    /\ pend[s] = <<>>
                    /\ pend'[s] # <<>>
                    /\ rooms'[r].chan = rooms[r].chan
                    /\ rooms'[r].document.items =
                          rooms[r].document.items \cup DecodeV1(PayloadOf(pend'[s]).value).items ]_vars

\* C10 witness: an update has been applied and its frame is on the channel.
C10_Witness ==
    \E r \in RoomIds :
        /\ Len(rooms[r].chan) > 0
        /\ IsSyncUpdateFrame(rooms[r].chan[1])
        /\ rooms[r].document.items # {}

(***************************************************************************)
(* Properties of the sandbox executor.                                     *)
(***************************************************************************)
\* create_container returned a container id to execute.
ContainerCreated == container \in {"running", "exited", "removed"}

\* C2: when execute returns after container creation succeeded, it has called
\* remove_container on the container, on every branch.
C2_ContainerRemovedOnEveryBranch ==
    (epc = "returned" /\ ContainerCreated) => "remove_container" \in calls

\* No byte of the sequence is one from_utf8_lossy replaces.
AsciiOnly(bytes) == \A i \in 1..Len(bytes) : bytes[i] < 128

\* C3: in every result execute returns for a run that did not time out and
\* whose program wrote ASCII only (so that no byte is replaced by a longer
\* sequence), stdout and stderr are each at most limits.max_output_bytes long.
C3_OutputBounded ==
    (/\ epc = "returned" /\ result.kind = "ok" /\ ~result.timed_out
     /\ AsciiOnly(stdout) /\ AsciiOnly(stderr)) =>
        /\ Len(result.stdout) <= limits.max_output_bytes
        /\ Len(result.stderr) <= limits.max_output_bytes

\* C4: when the timer fired before the collector finished, execute returns a
\* normal result with timed_out set, stderr "Execution timed out" and stdout
\* empty, and did not query the exec again on its way to teardown.
C4_TimeoutGivesNormalResult ==
    (epc = "returned" /\ timed_out) =>
        /\ result.kind = "ok"
        /\ result.timed_out
        /\ result.stderr = TimedOutMessage
        /\ result.stdout = <<>>
        /\ "inspect_after_timeout" \notin calls

(***************************************************************************)
(* Properties of the fan-out channel.                                      *)
(***************************************************************************)
\* C11: no frame a peer's receiver yields (and the handler writes to the
\* peer's socket) is a frame that this same peer published.
C11_OwnFramesNotDelivered ==
    \A p \in Peers : \A k \in 1..Len(got[p]) : sent[got[p][k]].from # p

(***************************************************************************)
(* Properties of the handler's frame decoding (FrameSpec).                 *)
(***************************************************************************)
\* data is a Sync frame of sub-type sub whose payload can be read.
IsSyncFrame(data, sub) ==
    /\ data # <<>>
    /\ FrameType(data).ok /\ FrameType(data).value = MSG_SYNC
    /\ SyncType(data).ok /\ SyncType(data).value = sub
    /\ SyncPayload(data).ok

\* The channels of all rooms, and what the handlers are about to broadcast.
Channels == [r \in RoomIds |-> rooms[r].chan]
Documents == [r \in RoomIds |-> rooms[r].document]

\* C12: a step that handles a Sync Step2 frame with payload P from session s
\* leaves the document of s's room as apply_update(P) leaves it (unchanged
\* when P does not decode), puts nothing in any channel, leaves nothing to
\* be broadcast and writes to no socket.
C12_Step2AppliesWithoutBroadcast ==
    [][\A s \in Sessions :
        (inbound'.from = s /\ IsSyncFrame(inbound'.data, SYNC_STEP2)) =>
            LET P == SyncPayload(inbound'.data).value
            IN  /\ rooms'[room[s]].document = ApplyUpdate(rooms[room[s]].document, P).doc
                /\ \A r \in RoomIds : r # room[s] => rooms'[r].document = rooms[r].document
                /\ Channels' = Channels
                /\ pend' = pend
                /\ wire' = NoWrite]_vars

\* A Sync Step2 frame with a new item has just been handled in a room of two
\* participants: the document has the item and no frame is in flight.
C12_Witness ==
    /\ inbound.from # 0
    /\ inbound.data = EncodeSyncStep2(EncodeV1({1}))
    /\ LET r == room[inbound.from]
       IN  /\ Cardinality(DOMAIN rooms[r].participants) = 2
           /\ rooms[r].document.items = {1}
           /\ rooms[r].chan = <<>>
    /\ \A s \in Sessions : pend[s] = <<>>

\* C13: a step that handles a Sync Step1 frame from session s whose payload
\* P is a state vector makes one socket write, to s, of the Sync Step2 frame
\* carrying encode_diff(P); rooms (documents, participants, channels) and
\* pending broadcasts are unchanged; and when P covers the document the
\* update in the frame written has no item.
C13_Step1AnsweredWithDiff ==
    [][\A s \in Sessions :
        (/\ inbound'.from = s
         /\ IsSyncFrame(inbound'.data, SYNC_STEP1)
         /\ DecodeV1(SyncPayload(inbound'.data).value).ok) =>
            LET P == SyncPayload(inbound'.data).value
                doc == rooms[room[s]].document
            IN  /\ wire'.to = s
                /\ wire'.data = EncodeSyncStep2(EncodeDiff(doc, P).diff)
                /\ rooms' = rooms
                /\ registry' = registry
                /\ pend' = pend
                /\ (doc.items \subseteq DecodeV1(P).items) =>
                      /\ IsSyncFrame(wire'.data, SYNC_STEP2)
                      /\ DecodeV1(SyncPayload(wire'.data).value) = [ok |-> TRUE, items |-> {}]]_vars

\* A Sync Step1 frame with the empty state vector has just been answered in
\* a room of two participants whose document has an item: the reply carries
\* the item.
C13_Witness ==
    /\ inbound.from # 0
    /\ inbound.data = EncodeSyncStep1(EncodeV1({}))
    /\ wire.to = inbound.from
    /\ wire.data = EncodeSyncStep2(EncodeV1({1}))
    /\ Cardinality(DOMAIN rooms[room[inbound.from]].participants) = 2

\* The frames the framing of section 4.1 does not accept: empty, a varint
\* cut short, a length prefix past the end, a CRDT payload that does not
\* decode, an unknown message type or sync sub-type.
Malformed(data) ==
    \/ data = <<>>
    \/ ~FrameType(data).ok
    \/ /\ FrameType(data).ok /\ FrameType(data).value = MSG_SYNC
       /\ \/ ~SyncType(data).ok
          \/ SyncType(data).ok /\ SyncType(data).value \notin {SYNC_STEP1, SYNC_STEP2, SYNC_UPDATE}
          \/ SyncType(data).ok /\ ~SyncPayload(data).ok
          \/ SyncType(data).ok /\ SyncPayload(data).ok
                /\ ~DecodeV1(SyncPayload(data).value).ok
    \/ /\ FrameType(data).ok /\ FrameType(data).value = MSG_AWARENESS
       /\ ~ReadVarUint8Array(data, FrameType(data).pos).ok
    \/ FrameType(data).ok /\ FrameType(data).value \notin {MSG_SYNC, MSG_AWARENESS}

\* C14: a step that handles a malformed or unknown frame from session s
\* leaves s running and a participant of its room, and changes no document,
\* no channel and no pending broadcast.
C14_MalformedFramesDropped ==
    [][\A s \in Sessions :
        (inbound'.from = s /\ Malformed(inbound'.data)) =>
            /\ pc'[s] = "running"
            /\ s \in DOMAIN rooms'[room[s]].participants
            /\ Documents' = Documents
            /\ Channels' = Channels
            /\ pend' = pend]_vars

\* C15: what a receiver has yielded has no frame twice, and two frames of
\* one publisher appear in it in the order the publisher sent them (so it
\* is a subsequence of each publisher's publish order).
C15_OrderPerPublisher ==
    \A p \in Peers : \A k, l \in 1..Len(got[p]) :
        k < l =>
            /\ got[p][k] # got[p][l]
            /\ sent[got[p][k]].from = sent[got[p][l]].from => got[p][k] < got[p][l]

\* A receiver that lagged has yielded two frames of one publisher, with a
\* frame lost between them.
C15_Witness ==
    \E p \in Peers :
        /\ Len(got[p]) >= 2
        /\ got[p][2] > got[p][1] + 1
        /\ sent[got[p][1]].from = sent[got[p][2]].from

\* C16: broadcast_update can always complete, whatever the receivers are
\* (none at all, or one with a full backlog); it moves no receiver and
\* loses no other receiver's frames; and a receiver that fell behind yields
\* only frames the channel still keeps, the oldest ones being lost to it.
C16_BroadcastNeverBlocks ==
    /\ [](\A p \in Peers : \A data \in FanoutFrames :
             Len(sent) < MaxSent => ENABLED Publish(p, data))
    /\ [][\A p \in Peers : \A data \in FanoutFrames :
             Publish(p, data) =>
                /\ sendResult' = (IF \E q \in Peers : subscribed[q] THEN "ok" ELSE "err")
                /\ <<subscribed, cursor, got>>' = <<subscribed, cursor, got>>]_vars
    /\ [][\A p \in Peers :
             got'[p] # got[p] /\ got'[p] # <<>> =>
                /\ got'[p][Len(got'[p])] > Overwritten(sent)
                /\ cursor[p] >= Overwritten(sent)]_vars

\* A send has completed while a receiver had more frames pending than the
\* channel keeps.
C16_Witness ==
    /\ sendResult = "ok"
    /\ \E p \in Peers : subscribed[p] /\ Len(sent) - cursor[p] > ScaledCapacity

\* C18: every frame a receiver has yielded was sent after the join that
\* made the receiver.
C18_OnlyFramesAfterJoin ==
    \A p \in Peers : \A k \in 1..Len(got[p]) : got[p][k] > joinedAt[p]

\* A receiver made when the channel already had frames has yielded a frame.
C18_Witness ==
    \E p \in Peers : subscribed[p] /\ joinedAt[p] > 0 /\ got[p] # <<>>

\* C17: a socket write to a session that has not entered its loop yet is
\* the write of the Sync Step1 frame carrying the state vector of the
\* document of the session's room, and a session enters its loop only by
\* the step that makes that write: no forwarded frame and no reply is
\* written to the socket before it.
C17_FirstFrameIsStep1 ==
    [][\A s \in Sessions :
        LET step1 == EncodeSyncStep1(StateVector(rooms[room[s]].document))
        IN  /\ (wire'.to = s /\ pc[s] # "running") =>
                  pc[s] = "joined" /\ wire'.data = step1
            /\ (pc[s] # "running" /\ pc'[s] = "running") =>
                  wire'.to = s /\ wire'.data = step1]_vars

\* A session has just been sent its Sync Step1, with the state vector of a
\* document that has an item, while a frame of the room's channel is
\* waiting for it.
C17_Witness ==
    \E s \in Sessions :
        /\ pc[s] = "running"
        /\ wire.to = s
        /\ wire.data = EncodeSyncStep1(EncodeV1({1}))
        /\ Backlog(s) > 0

(***************************************************************************)
(* Properties of the document under concurrent calls (DocSpec).            *)
(***************************************************************************)
\* The document after the updates of a sequence were applied in order.
RECURSIVE DocAfter(_)
DocAfter(updates) ==
    IF updates = <<>> THEN NewDocument
    ELSE ApplyUpdate(DocAfter(SubSeq(updates, 1, Len(updates) - 1)),
                     updates[Len(updates)]).doc

\* C19: at most one apply_update is inside the lock and no reader is inside
\* with it; whenever none is inside, the document is the result of the
\* updates applied one after the other in the order they took the lock; and
\* every value a read call returns is the value of the call on the document
\* after some prefix of that order.
C19_ApplyAtomicForReaders ==
    /\ Cardinality({t \in Tasks : tpc[t] \in {"write_locked", "applying"}}) <= 1
    /\ dlock.writer # NoTask => dlock.readers = {}
    /\ dlock.writer = NoTask => replica = DocAfter(order)
    /\ readResult.task # NoTask =>
          \E n \in 0..Len(order) :
              ReadValue(readResult.call, DocAfter(SubSeq(order, 1, n)))
                  = [ok |-> readResult.ok, value |-> readResult.value]

\* get_content has just returned the text of a two-item update, the only
\* update applied, while another task's apply_update waits for the lock.
C19_Witness ==
    /\ readResult.task # NoTask
    /\ readResult.call.op = "get_content"
    /\ readResult.value = <<1, 2>>
    /\ order = <<EncodeV1({1, 2})>>
    /\ \E t \in Tasks : tpc[t] = "write_wait"

DiffFor(r, q) == EncodeDiff(replicaDoc[q], StateVector(replicaDoc[r])).diff

\* Replica r applies, in this step, the answer of replica q to its state vector.
AppliesDiffOf(r, q) ==
    /\ r # q
    /\ replicaLog'[r] = Append(replicaLog[r], DiffFor(r, q))

EndsInsideVarUint(data, pos) == \A i \in (pos + 1)..Len(data) : data[i] >= 128

\* read_var_uint on the bytes of write_var_uint(n) returns n and ends after
\* the last byte written.
VarUintReadBack ==
    (cout.done /\ carg.op = "var_uint") =>
        cout.first = [ok |-> TRUE, panic |-> FALSE, value |-> carg.n,
                      pos |-> Len(cout.buf)]

\* C23: read_var_uint on the bytes of write_var_uint(n) returns n and the
\* position advanced by the number of bytes written, for every n of the
\* word; and read_var_uint on input that ends before a byte with the high
\* bit clear returns None.
C23_VarUintRoundTrip ==
    /\ VarUintReadBack
    /\ (cout.done /\ carg.op = "read" /\ EndsInsideVarUint(carg.data, carg.pos)) =>
          (~cout.first.ok /\ ~cout.first.panic)

\* The sync sub-type the encoder named by op writes.
SubTypeOf(op) ==
    IF op = "sync_step1" THEN SYNC_STEP1
    ELSE IF op = "sync_step2" THEN SYNC_STEP2
    ELSE SYNC_UPDATE

\* C24: the frame that encode_sync_step1, encode_sync_step2 or
\* encode_sync_update builds for a payload p reads back, as the handler reads
\* a binary frame, as message type Sync in one byte, the encoder's sub-type
\* in one byte and the payload p, which ends where the frame ends.
C24_FrameRoundTrip ==
    (cout.done /\ carg.op \in {"sync_step1", "sync_step2", "sync_update"}) =>
        /\ cout.first = [ok |-> TRUE, panic |-> FALSE, value |-> MSG_SYNC, pos |-> 1]
        /\ cout.second = [ok |-> TRUE, panic |-> FALSE, value |-> SubTypeOf(carg.op),
                          pos |-> 2]
        /\ cout.array = [ok |-> TRUE, panic |-> FALSE, value |-> carg.data,
                         pos |-> Len(cout.buf)]

\* A Sync Update frame whose payload length takes two bytes was read back,
\* in a build with overflow checks.
C24_Witness ==
    /\ cout.done
    /\ carg.op = "sync_update"
    /\ Len(carg.data) = 128
    /\ Len(cout.buf) = 132
    /\ overflow_checks

(***************************************************************************)
(* Properties of requests, results and teardown (ExecSpec).                *)
(***************************************************************************)
\* The request's code is one the validation rejects.
InvalidCode == CodeTooLarge(request.code) \/ CodeEmpty(request.code)

\* A request that run_code received with code that is empty after trimming
\* or too large gets a bad-request answer and no container.
RunCodeRejectsInvalid ==
    (request.entry = "run_code" /\ InvalidCode) =>
        /\ container = "none"
        /\ host_config = NoHostConfig
        /\ epc = "returned" => result = BadRequest

\* C25: for a request whose code is empty after trimming or longer than
\* 100000 bytes, whether it came through run_code or was handed to execute,
\* no container is ever created and what is returned is the invalid-request
\* error.
C25_InvalidRequestRejected ==
    InvalidCode =>
        /\ container = "none"
        /\ host_config = NoHostConfig
        /\ epc = "returned" => result = BadRequest

\* C26: when execute returns for a run that did not time out and whose exec
\* was inspected, the result is a normal one and its exit_code is the exit
\* code inspect_exec reported, or -1 when it reported none.
C26_ExitCodeFromInspect ==
    (epc \in {"remove", "returned"} /\ ~timed_out /\ inspect # NotInspected) =>
        /\ result.exit_code = (IF inspect.some THEN inspect.value ELSE -1)
        /\ ~result.timed_out
        /\ epc = "returned" => result.kind = "ok"

\* execute returned a normal result with the non-zero exit code that
\* inspect_exec reported.
C26_Witness ==
    /\ epc = "returned"
    /\ ~timed_out
    /\ inspect = Some(1)
    /\ result.kind = "ok"
    /\ result.exit_code = 1

\* C27: the step that tears the container down and returns makes the result
\* that was built before it the value of execute, whatever stop and
\* force-remove answer, and calls force-remove also when stop failed.
C27_TeardownFailureIgnored ==
    [][(epc = "remove" /\ epc' = "returned") =>
          /\ result' = [result EXCEPT !.kind = "ok"]
          /\ "remove_container" \in calls'
          /\ ("force_remove" \in calls' \/ "force_remove_failed" \in calls') ]_vars

\* execute returned a normal result although stop and force-remove both
\* failed; the container is still running.
C27_Witness ==
    /\ epc = "returned"
    /\ result.kind = "ok"
    /\ {"stop_failed", "force_remove_failed"} \subseteq calls
    /\ container = "running"

\* C30: a container that was created has network_mode "bridge" if
\* limits.network_enabled and "none" otherwise; with the default and the
\* snippet limits it is "none".
C30_NetworkOnlyIfEnabled ==
    /\ container # "none" => host_config # NoHostConfig
    /\ host_config # NoHostConfig =>
          /\ host_config.network_mode \in {"bridge", "none"}
          /\ host_config.network_mode = "bridge" <=> limits.network_enabled
          /\ limits \in {DefaultLimits, SnippetLimits} => host_config.network_mode = "none"
    /\ ~DefaultLimits.network_enabled /\ ~SnippetLimits.network_enabled

\* A container of an executor with the project limits runs with a network.
C30_Witness ==
    /\ container = "running"
    /\ limits = ProjectLimits
    /\ host_config.network_mode = "bridge"

(***************************************************************************)
(* Properties of Awareness frames (FrameSpec).                             *)
(***************************************************************************)
\* data is a frame whose message type reads as Awareness.
IsAwarenessFrame(data) ==
    /\ data # <<>>
    /\ FrameType(data).ok /\ FrameType(data).value = MSG_AWARENESS

\* C29: a step that handles an Awareness frame from session s appends the
\* frame, byte for byte, to the channel of s's room, whether or not what
\* follows the type byte is a readable payload; no other channel, no
\* document and no participant entry (cursor included) changes, nothing is
\* left to be broadcast and no socket is written.
C29_AwarenessRelayedVerbatim ==
    [][\A s \in Sessions :
        (inbound'.from = s /\ IsAwarenessFrame(inbound'.data)) =>
            /\ rooms'[room[s]].chan = Append(rooms[room[s]].chan, inbound'.data)
            /\ \A r \in RoomIds : r # room[s] => rooms'[r].chan = rooms[r].chan
            /\ Documents' = Documents
            /\ \A r \in RoomIds : rooms'[r].participants = rooms[r].participants
            /\ pend' = pend
            /\ wire' = NoWrite]_vars

\* An Awareness frame whose length prefix points past its end has just been
\* handled in a room of two participants, and is the room's newest frame.
C29_Witness ==
    /\ inbound.from # 0
    /\ inbound.data = <<MSG_AWARENESS, 5, 1>>
    /\ LET r == room[inbound.from]
       IN  /\ Cardinality(DOMAIN rooms[r].participants) = 2
           /\ rooms[r].chan # <<>>
           /\ rooms[r].chan[Len(rooms[r].chan)] = <<MSG_AWARENESS, 5, 1>>

(***************************************************************************)
(* Properties of the text transport (TextSpec).                            *)
(***************************************************************************)
\* msg is an Update whose payload apply_update rejects on doc.
MalformedUpdateText(doc, msg) ==
    msg.type = "Update" /\ ~ApplyUpdate(doc, msg.data).ok

\* msg is a Sync whose state vector encode_diff rejects on doc.
MalformedSyncText(doc, msg) ==
    msg.type = "Sync" /\ ~EncodeDiff(doc, msg.state_vector).ok

\* The step wrote an Error message to s's socket, left s running and
\* changed no document, no channel and no pending broadcast.
ErrorReplied(s) ==
    /\ wire'.to = s /\ wire'.text /\ wire'.data = ErrorMessage
    /\ pc'[s] = "running"
    /\ Documents' = Documents
    /\ Channels' = Channels
    /\ pend' = pend

\* A step that handles a text Update whose payload does not decode answers
\* with an Error message on the same socket; the session continues, the
\* document is unchanged and nothing is broadcast.
MalformedUpdateAnswered ==
    [][\A s \in Sessions :
        (/\ inbound'.from = s /\ inbound'.text
         /\ MalformedUpdateText(rooms[room[s]].document, inbound'.data)) =>
            ErrorReplied(s)]_vars

\* C28: a step that handles a text Update whose payload does not decode, or
\* a text Sync whose state vector does not decode, answers with an Error
\* message on the same socket; the session continues, the document is
\* unchanged and nothing is broadcast.
C28_CrdtErrorAnswered ==
    [][\A s \in Sessions :
        (/\ inbound'.from = s /\ inbound'.text
         /\ \/ MalformedUpdateText(rooms[room[s]].document, inbound'.data)
            \/ MalformedSyncText(rooms[room[s]].document, inbound'.data)) =>
            ErrorReplied(s)]_vars

(***************************************************************************)
(* Properties of the limits presets (ExecSpec).                            *)
(***************************************************************************)
\* C31: the presets are the documented constants (default: 256 MiB, quota
\* 50000, 64 pids, 30 s, 1 MiB, no network; snippet: 128 MiB, 25000, 32,
\* 10 s, 64 KiB, no network; project: 1 GiB, 100000, 256, 300 s, 10 MiB,
\* network), and an executor built by run_code has the snippet ones.
C31_PresetsAsDocumented ==
    /\ DefaultLimits =
          [memory_bytes |-> 268435456, cpu_quota |-> 50000, pids_limit |-> 64,
           timeout_secs |-> 30, max_output_bytes |-> 1048576, network_enabled |-> FALSE]
    /\ SnippetLimits =
          [memory_bytes |-> 134217728, cpu_quota |-> 25000, pids_limit |-> 32,
           timeout_secs |-> 10, max_output_bytes |-> 65536, network_enabled |-> FALSE]
    /\ ProjectLimits =
          [memory_bytes |-> 1073741824, cpu_quota |-> 100000, pids_limit |-> 256,
           timeout_secs |-> 300, max_output_bytes |-> 10485760, network_enabled |-> TRUE]
    /\ request.entry = "run_code" =>
          limits.memory_bytes = 134217728 /\ limits.max_output_bytes = 65536

\* A container of an executor built by run_code runs with the snippet
\* preset's memory and pids limits.
C31_Witness ==
    /\ request.entry = "run_code"
    /\ container = "running"
    /\ limits = SnippetLimits
    /\ host_config.memory = 134217728
    /\ host_config.pids_limit = 32

(***************************************************************************)
(* Properties of a session's admission (NewcomerSpec).                     *)
(***************************************************************************)
\* The items of the updates in a set of Sync Update frames.
ItemsOf(frames) == UNION {DecodeV1(SyncPayload(f).value).items : f \in frames}

\* Frames the new handler's receiver holds and has not yielded yet, and
\* frames writers have yet to broadcast.
ToCome ==
    {nchan[i] : i \in (nrx.value + 1)..Len(nchan)}
    \cup {wpend[w] : w \in {v \in Writers : wpend[v] # <<>>}}

C33_StreamEndLeadsToCleanup ==
    \A s \in FrameSessions : (pc[s] = "ended") ~> (pc[s] = "done")

\* C34: when every handler that was started has returned (after leave and
\* cleanup), the registry holds no room.
C34_NoRoomLeftBehind ==
    (\A s \in Sessions : pc[s] \in {"idle", "done"}) =>
        \A d \in DocIds : registry[d] = NoRoom

\* Every connection's handler has returned and the registry is empty.
C34_Witness ==
    /\ \A s \in Sessions : pc[s] = "done"
    /\ \A d \in DocIds : registry[d] = NoRoom

(***************************************************************************)
(* Properties of decoding input a client chose (CodecSpec).                *)
(***************************************************************************)
\* C35: read_var_uint and read_var_uint8_array, on any bytes and from any
\* position, return without a panic, and what they return on success ends
\* inside the input.
C35_DecodingNeverAborts ==
    (cout.done /\ carg.op = "read") =>
        /\ ~cout.first.panic
        /\ ~cout.array.panic
        /\ cout.first.ok => cout.first.pos <= Len(carg.data)
        /\ cout.array.ok => cout.array.pos <= Len(carg.data)

(***************************************************************************)
(* Properties of the code file (ExecSpec).                                 *)
(***************************************************************************)
\* C36: when the run exec is started after the code was written to the
\* write exec's stdin, the code file is complete: cat has copied all of the
\* code.
C36_RunAfterFileWritten ==
    (ran_with # "none" /\ "write_all" \in calls) => ran_with = "complete"

(***************************************************************************)
(* Properties of run_code's shared executor (RunSpec).                     *)
(***************************************************************************)
\* The requests whose execute call has begun and not returned.
Executing == {q \in Requests : rpc[q] \in {"ready", "created", "ran"}}

\* At most one request is inside execute, and it holds the lock.
ExecutionsSerialized ==
    /\ Cardinality(Executing) <= 1
    /\ \A q \in Executing : mutex = q

\* C37: at most one request is inside execute, it holds the lock, and at
\* most one container created by the service exists.
C37_OneContainerAtATime ==
    /\ ExecutionsSerialized
    /\ Cardinality(live) <= 1

(***************************************************************************)
(* Properties of create_container's failures (ExecSpec).                   *)
(***************************************************************************)
\* C38: create_container leaves no container behind when it fails: when
\* execute has returned, no container is left that was created and never
\* started.
C38_FailedCreateLeavesNothing ==
    epc = "returned" => container # "created"

(***************************************************************************)
(* Properties of the JSON Awareness envelope (TextSpec).                   *)
(***************************************************************************)
\* The participant maps of rooms a and b differ at most in the cursor of
\* user s in room r.
SameButCursorOf(a, b, r, s) ==
    /\ DOMAIN a = DOMAIN b
    /\ \A x \in DOMAIN a :
          /\ a[x].document = b[x].document
          /\ a[x].chan = b[x].chan
          /\ DOMAIN a[x].participants = DOMAIN b[x].participants
          /\ \A u \in DOMAIN a[x].participants :
                (x # r \/ u # s) => a[x].participants[u] = b[x].participants[u]

\* C39: a JSON Awareness envelope received on a connection changes only the
\* cursor of that connection's own participant: the envelope's user_id is
\* ignored, no other participant's cursor changes, no participant is added,
\* and an envelope without a cursor changes nothing.
C39_AwarenessMovesOwnCursorOnly ==
    [][\A s \in Sessions :
        (/\ inbound'.from = s /\ inbound'.text
         /\ inbound'.data.type = "Awareness") =>
            /\ registry' = registry
            /\ SameButCursorOf(rooms, rooms', room[s], s)
            /\ inbound'.data.cursor.some =>
                  rooms'[room[s]].participants[s].cursor_position
                      = Some(inbound'.data.cursor.value)
            /\ ~inbound'.data.cursor.some => rooms' = rooms]_vars

\* An envelope naming the other participant has moved the sender's cursor
\* and left the named participant's cursor unset.
C39_Witness ==
    /\ inbound.from # 0 /\ inbound.text
    /\ inbound.data.type = "Awareness"
    /\ inbound.data.user_id # inbound.from
    /\ inbound.data.cursor.some
    /\ LET P == rooms[room[inbound.from]].participants
       IN  /\ inbound.data.user_id \in DOMAIN P
           /\ P[inbound.from].cursor_position = Some(2)
           /\ P[inbound.data.user_id].cursor_position = NoCursor

(***************************************************************************)
(* Properties of the run recipes (RecipeSpec).                             *)
(***************************************************************************)
\* C40: for every language, every file the run recipe asks the kernel to
\* execute lies where the container's mounts permit execution: no recipe
\* writes a binary to a tmpfs mounted noexec and executes it from there.
C40_ExecutesOnlyWherePermitted ==
    \A f \in rexecs : MayExec(f)

====
